---- MODULE Spec2Model ----
(***************************************************************************)
(* A model of Table_Tools/generic_table_tools.py: the date-range grammars, *)
(* the condition dispatcher, the query assembler with its security         *)
(* exclusion filters, the paginated executor and the table query facade.   *)
(*                                                                         *)
(* Text is modelled as a sequence of one-character strings, so that the    *)
(* string operations of the source (search, strip, split, startswith,      *)
(* percent-encoding) are computed and not assumed.                         *)
(***************************************************************************)
EXTENDS Integers, Sequences, FiniteSets, TLC

VARIABLES
    \* ---- paginated executor (_make_paginated_request) ----
    pc,            \* "idle" | "await" | "done" | "raised"
    url,           \* parameter of the running execution: the base URL
    max_results,   \* parameter of the running execution
    page_size,     \* parameter of the running execution
    all_results,   \* accumulated records
    offset,        \* sysparm_offset of the next request
    requests,      \* the page requests this execution issued: <<[offset, limit]>>
    responses,     \* what the transport answered this execution, in order
    batch,         \* the value returned to the caller
    next_id,       \* the store's next fresh record
    sent,          \* every request handed to the transport, in order
    \* ---- one call of _parse_date_range_from_text ----
    p_input,       \* the argument: [type, chars]
    p_pc,          \* "ready" | "done" | "raised" ("idle": not in use)
    p_result,      \* what the call produced
    p_attempted,   \* the parsers the call ran, in order
    \* ---- the platform ----
    strftime_pads, \* whether strftime's %Y zero-pads a year below 1000
    \* ---- one call of a facade operation ----
    f_pc,          \* "idle", the await the operation is suspended at, "done", "raised"
    f_op,          \* the operation called
    f_in,          \* its arguments, apart from the table
    f_table,       \* its table_name
    f_keywords,    \* text search: what extract_keywords returned
    f_kw,          \* text search: index of the keyword being tried
    f_return,      \* the mapping returned to the caller
    \* ---- one call of a pure function of the query assembler ----
    c_fn,          \* the function called ("-": none)
    c_in,          \* its arguments
    c_pc,          \* "ready" | "done" | "raised" ("idle": not in use)
    c_out,         \* what it returned
    \* ---- executions of the paginated executor running concurrently ----
    tasks          \* task id -> the locals of its coroutine (<<>>: none)

exec_vars == <<pc, url, max_results, page_size, all_results, offset, requests,
               responses, batch, next_id, sent>>

parse_vars == <<p_input, p_pc, p_result, p_attempted>>

facade_vars == <<f_pc, f_op, f_in, f_table, f_keywords, f_kw, f_return>>

call_vars == <<c_fn, c_in, c_pc, c_out>>

vars == <<exec_vars, parse_vars, strftime_pads, facade_vars, call_vars, tasks>>

(***************************************************************************)
(* Arithmetic helpers                                                      *)
(***************************************************************************)
Min(a, b) == IF a < b THEN a ELSE b

CeilDiv(a, b) == (a + b - 1) \div b

(***************************************************************************)
(* Text: sequences of one-character strings                                *)
(***************************************************************************)
Digits == <<"0","1","2","3","4","5","6","7","8","9">>

LowerLetters == <<"a","b","c","d","e","f","g","h","i","j","k","l","m","n","o","p","q","r","s","t","u","v","w","x","y","z">>

UpperLetters == <<"A","B","C","D","E","F","G","H","I","J","K","L","M","N","O","P","Q","R","S","T","U","V","W","X","Y","Z">>

Range(f) == {f[i] : i \in DOMAIN f}

IndexOf(seq, x) == IF x \in Range(seq) THEN CHOOSE i \in DOMAIN seq : seq[i] = x ELSE 0

IsDigit(c) == c \in Range(Digits)

\* \w of the re module, on the characters the model uses
IsWord(c) == c \in Range(Digits) \cup Range(LowerLetters) \cup Range(UpperLetters) \cup {"_"}

IsSpace(c) == c \in {" ", "\t", "\n"}

\* str.lower()
LowerChar(c) == IF c \in Range(UpperLetters) THEN LowerLetters[IndexOf(UpperLetters, c)] ELSE c

Lower(s) == [i \in 1..Len(s) |-> LowerChar(s[i])]

\* str.upper()
UpperChar(c) == IF c \in Range(LowerLetters) THEN UpperLetters[IndexOf(LowerLetters, c)] ELSE c

Upper(s) == [i \in 1..Len(s) |-> UpperChar(s[i])]

SetMin(S) == CHOOSE x \in S : \A y \in S : x <= y

SetMax(S) == CHOOSE x \in S : \A y \in S : x >= y

\* str.strip(chars): drop the leading and trailing characters that are in cs
StripChars(s, cs) ==
    LET keep == {i \in 1..Len(s) : s[i] \notin cs}
    IN  IF keep = {} THEN <<>> ELSE SubSeq(s, SetMin(keep), SetMax(keep))

\* str.strip()
Strip(s) == StripChars(s, {" ", "\t", "\n"})

\* str.count(c) for a single character
Count(s, c) == Cardinality({i \in 1..Len(s) : s[i] = c})

\* s[p:].startswith(t), p counted from 1
HasAt(s, p, t) == p + Len(t) - 1 <= Len(s) /\ SubSeq(s, p, p + Len(t) - 1) = t

StartsWith(s, t) == HasAt(s, 1, t)

EndsWith(s, t) == Len(t) <= Len(s) /\ HasAt(s, Len(s) - Len(t) + 1, t)

\* t in s
Contains(s, t) == \E p \in 1..(Len(s) + 1) : HasAt(s, p, t)

RECURSIVE ToInt(_)
\* int(s) for a string of decimal digits
ToInt(s) ==
    IF s = <<>> THEN 0
    ELSE 10 * ToInt(SubSeq(s, 1, Len(s) - 1)) + (IndexOf(Digits, s[Len(s)]) - 1)

RECURSIVE IntStr(_)
\* str(n) for n >= 0
IntStr(n) == IF n < 10 THEN <<Digits[n + 1]>> ELSE IntStr(n \div 10) \o <<Digits[(n % 10) + 1]>>

\* format(n, "02d") for n >= 0
Pad2(n) == IF n < 10 THEN <<"0">> \o IntStr(n) ELSE IntStr(n)

\* format(n, "04d") for n >= 0
Pad4(n) ==
    LET d == IntStr(n)
    IN  IF Len(d) >= 4 THEN d ELSE [i \in 1..(4 - Len(d)) |-> "0"] \o d

(***************************************************************************)
(* re.search for the patterns of the date grammars.  A pattern is a        *)
(* sequence of elements: a literal, a greedy optional literal (x)?, or a   *)
(* greedy capturing class (\d{lo,hi}) or (\w{lo,hi}).  The match is the    *)
(* one the backtracking matcher of re finds: leftmost start, then the      *)
(* first success trying the longer alternatives first.                     *)
(***************************************************************************)
Lit(t) == [t |-> "lit", s |-> t, c |-> "-", lo |-> 0, hi |-> 0]

Opt(t) == [t |-> "opt", s |-> t, c |-> "-", lo |-> 0, hi |-> 0]

D(lo, hi) == [t |-> "cls", s |-> <<>>, c |-> "d", lo |-> lo, hi |-> hi]

W(lo, hi) == [t |-> "cls", s |-> <<>>, c |-> "w", lo |-> lo, hi |-> hi]

NoMatch == [ok |-> FALSE, caps |-> <<>>]

InClass(c, ch) == IF c = "d" THEN IsDigit(ch) ELSE IsWord(ch)

RECURSIVE RunLen(_, _, _, _)
\* how many characters of class c follow position p, at most hi
RunLen(c, s, p, hi) ==
    IF hi = 0 \/ p > Len(s) \/ ~InClass(c, s[p]) THEN 0
    ELSE 1 + RunLen(c, s, p + 1, hi - 1)

RECURSIVE MatchHere(_, _, _, _)
RECURSIVE TryCount(_, _, _, _, _)
\* the elements k.. of pat against s from position p
MatchHere(pat, k, s, p) ==
    IF k > Len(pat) THEN [ok |-> TRUE, caps |-> <<>>]
    ELSE LET e == pat[k] IN
         CASE e.t = "lit" ->
                  IF HasAt(s, p, e.s) THEN MatchHere(pat, k + 1, s, p + Len(e.s))
                  ELSE NoMatch
           [] e.t = "opt" ->
                  LET with == IF HasAt(s, p, e.s)
                              THEN MatchHere(pat, k + 1, s, p + Len(e.s))
                              ELSE NoMatch
                  IN  IF with.ok THEN with ELSE MatchHere(pat, k + 1, s, p)
           [] OTHER -> TryCount(pat, k, s, p, RunLen(e.c, s, p, e.hi))

\* the class element k taking n characters, then n-1, ... down to its minimum
TryCount(pat, k, s, p, n) ==
    IF n < pat[k].lo THEN NoMatch
    ELSE LET rest == MatchHere(pat, k + 1, s, p + n)
         IN  IF rest.ok
             THEN [ok |-> TRUE, caps |-> <<SubSeq(s, p, p + n - 1)>> \o rest.caps]
             ELSE TryCount(pat, k, s, p, n - 1)

\* re.search(pat, s): the captured groups of the leftmost match
Search(pat, s) ==
    LET starts == {p \in 1..(Len(s) + 1) : MatchHere(pat, 1, s, p).ok}
    IN  IF starts = {} THEN NoMatch ELSE MatchHere(pat, 1, s, SetMin(starts))

(***************************************************************************)
(* constants.MONTH_NAME_TO_NUMBER, lines 119-123                           *)
(***************************************************************************)
MonthNames == <<
    <<"j","a","n","u","a","r","y">>,
    <<"f","e","b","r","u","a","r","y">>,
    <<"m","a","r","c","h">>,
    <<"a","p","r","i","l">>,
    <<"m","a","y">>,
    <<"j","u","n","e">>,
    <<"j","u","l","y">>,
    <<"a","u","g","u","s","t">>,
    <<"s","e","p","t","e","m","b","e","r">>,
    <<"o","c","t","o","b","e","r">>,
    <<"n","o","v","e","m","b","e","r">>,
    <<"d","e","c","e","m","b","e","r">> >>

\* MONTH_NAME_TO_NUMBER.get(name.lower()); 0 stands for None
MonthNumber(name) == IndexOf(MonthNames, Lower(name))

(***************************************************************************)
(* datetime of the standard library: proleptic Gregorian ordinals, day 1   *)
(* being 0001-01-01, a Monday; dates exist for the years 1..9999.          *)
(***************************************************************************)
IsLeap(y) == (y % 4 = 0) /\ ((y % 100 # 0) \/ (y % 400 = 0))

DaysBeforeYear(y) == (y - 1) * 365 + ((y - 1) \div 4) - ((y - 1) \div 100) + ((y - 1) \div 400)

DaysInMonth(y, m) ==
    IF m = 2 THEN (IF IsLeap(y) THEN 29 ELSE 28)
    ELSE IF m \in {4, 6, 9, 11} THEN 30 ELSE 31

RECURSIVE DaysBeforeMonth(_, _)
DaysBeforeMonth(y, m) == IF m = 1 THEN 0 ELSE DaysBeforeMonth(y, m - 1) + DaysInMonth(y, m - 1)

\* date(y, m, d).toordinal()
Ordinal(y, m, d) == DaysBeforeYear(y) + DaysBeforeMonth(y, m) + d

\* date.max.toordinal()
MaxOrdinal == DaysBeforeYear(10000)

\* date.weekday(): Monday is 0
Weekday(ord) == (ord + 6) % 7

\* date.fromordinal(ord), as <<year, month, day>>
FromOrdinal(ord) ==
    LET y == CHOOSE yy \in ((ord \div 366) + 1)..((ord \div 365) + 1) :
                 DaysBeforeYear(yy) < ord /\ ord <= DaysBeforeYear(yy + 1)
        n == ord - DaysBeforeYear(y)
        m == CHOOSE mm \in 1..12 :
                 DaysBeforeMonth(y, mm) < n /\ n <= DaysBeforeMonth(y, mm) + DaysInMonth(y, mm)
    IN  <<y, m, n - DaysBeforeMonth(y, m)>>

\* strftime('%Y-%m-%d'): the C library decides whether %Y pads a year below
\* 1000 with zeros (glibc does not)
Strftime(ord, pads) ==
    LET ymd == FromOrdinal(ord)
    IN  (IF pads THEN Pad4(ymd[1]) ELSE IntStr(ymd[1]))
            \o <<"-">> \o Pad2(ymd[2]) \o <<"-">> \o Pad2(ymd[3])

(***************************************************************************)
(* The date grammars, lines 235-366.  A grammar answers None, a pair of    *)
(* date strings, or raises.                                                *)
(***************************************************************************)
ResNone == [kind |-> "none", start |-> <<>>, end |-> <<>>]

ResRange(a, b) == [kind |-> "range", start |-> a, end |-> b]

ResRaise(exc) == [kind |-> "raise", start |-> exc, end |-> <<>>]

\* f"{year}-{month_num:02d}-{day:02d}"
FormatDate(year, month, day) == IntStr(year) \o <<"-">> \o Pad2(month) \o <<"-">> \o Pad2(day)

\* r'week (\d{1,2}) (?:of )?(\d{4})'
WeekPattern == <<Lit(<<"w","e","e","k"," ">>), D(1, 2), Lit(<<" ">>), Opt(<<"o","f"," ">>), D(4, 4)>>

\* lines 244-252: the dates of the week, with the range checks of datetime
WeekRange(week_num, year, pads) ==
    IF year < 1 THEN ResRaise("ValueError")
    ELSE LET jan_4 == Ordinal(year, 1, 4)
             monday == jan_4 - Weekday(jan_4)
             week_start == monday + 7 * (week_num - 1)
             week_end == week_start + 6
         IN  IF monday < 1 \/ week_start < 1 \/ week_start > MaxOrdinal
                \/ week_end > MaxOrdinal
             THEN ResRaise("OverflowError")
             ELSE ResRange(Strftime(week_start, pads), Strftime(week_end, pads))

\* _parse_week_format, lines 235-252
ParseWeekFormat(text, pads) ==
    LET m == Search(WeekPattern, text)
    IN  IF ~m.ok THEN ResNone
        ELSE WeekRange(ToInt(m.caps[1]), ToInt(m.caps[2]), pads)

\* r'(\w{3,9}) (\d{1,2})-(\d{1,2}), ?(\d{4})'
MonthRangePattern ==
    <<W(3, 9), Lit(<<" ">>), D(1, 2), Lit(<<"-">>), D(1, 2), Lit(<<",">>),
      Opt(<<" ">>), D(4, 4)>>

\* _parse_month_range_format, lines 254-273
ParseMonthRangeFormat(text) ==
    LET m == Search(MonthRangePattern, text)
    IN  IF ~m.ok THEN ResNone
        ELSE LET month_num == MonthNumber(m.caps[1])
                 start_day == ToInt(m.caps[2])
                 end_day == ToInt(m.caps[3])
                 year == ToInt(m.caps[4])
             IN  IF month_num = 0 THEN ResNone
                 ELSE ResRange(FormatDate(year, month_num, start_day),
                               FormatDate(year, month_num, end_day))

\* r'(\d{4}-\d{2}-\d{2}) to (\d{4}-\d{2}-\d{2})'
IsoPattern ==
    <<D(4, 4), Lit(<<"-">>), D(2, 2), Lit(<<"-">>), D(2, 2), Lit(<<" ","t","o"," ">>),
      D(4, 4), Lit(<<"-">>), D(2, 2), Lit(<<"-">>), D(2, 2)>>

\* _parse_iso_date_range, lines 275-283: the two groups verbatim
ParseIsoDateRange(text) ==
    LET m == Search(IsoPattern, text)
    IN  IF ~m.ok THEN ResNone
        ELSE ResRange(m.caps[1] \o <<"-">> \o m.caps[2] \o <<"-">> \o m.caps[3],
                      m.caps[4] \o <<"-">> \o m.caps[5] \o <<"-">> \o m.caps[6])

\* lines 296-311, 324-339: two (month, day, year) triples
TwoDates(m) ==
    LET start_month_num == MonthNumber(m.caps[1])
        start_day == ToInt(m.caps[2])
        start_year == ToInt(m.caps[3])
        end_month_num == MonthNumber(m.caps[4])
        end_day == ToInt(m.caps[5])
        end_year == ToInt(m.caps[6])
    IN  IF start_month_num = 0 \/ end_month_num = 0 THEN ResNone
        ELSE ResRange(FormatDate(start_year, start_month_num, start_day),
                      FormatDate(end_year, end_month_num, end_day))

\* r'(?:from )?(\w{3,9}) (\d{1,2}),? (\d{4}) to (\w{3,9}) (\d{1,2}),? (\d{4})'
CrossMonthPattern ==
    <<Opt(<<"f","r","o","m"," ">>), W(3, 9), Lit(<<" ">>), D(1, 2), Opt(<<",">>), Lit(<<" ">>),
      D(4, 4), Lit(<<" ","t","o"," ">>), W(3, 9), Lit(<<" ">>), D(1, 2), Opt(<<",">>),
      Lit(<<" ">>), D(4, 4)>>

\* _parse_cross_month_range, lines 285-311
ParseCrossMonthRange(text) ==
    LET m == Search(CrossMonthPattern, text)
    IN  IF ~m.ok THEN ResNone ELSE TwoDates(m)

\* r'between (\w{3,9}) (\d{1,2}),? (\d{4}) and (\w{3,9}) (\d{1,2}),? (\d{4})'
BetweenPattern ==
    <<Lit(<<"b","e","t","w","e","e","n"," ">>), W(3, 9), Lit(<<" ">>), D(1, 2), Opt(<<",">>),
      Lit(<<" ">>), D(4, 4), Lit(<<" ","a","n","d"," ">>), W(3, 9), Lit(<<" ">>), D(1, 2),
      Opt(<<",">>), Lit(<<" ">>), D(4, 4)>>

\* _parse_between_format, lines 313-339
ParseBetweenFormat(text) ==
    LET m == Search(BetweenPattern, text)
    IN  IF ~m.ok THEN ResNone ELSE TwoDates(m)

\* r'(?:from )?(\w{3,9}) (\d{1,2}) to (\w{3,9}) (\d{1,2}),? (\d{4})'
YearAtEndPattern ==
    <<Opt(<<"f","r","o","m"," ">>), W(3, 9), Lit(<<" ">>), D(1, 2), Lit(<<" ","t","o"," ">>),
      W(3, 9), Lit(<<" ">>), D(1, 2), Opt(<<",">>), Lit(<<" ">>), D(4, 4)>>

\* _parse_year_at_end_format, lines 341-366
ParseYearAtEndFormat(text) ==
    LET m == Search(YearAtEndPattern, text)
    IN  IF ~m.ok THEN ResNone
        ELSE LET start_month_num == MonthNumber(m.caps[1])
                 start_day == ToInt(m.caps[2])
                 end_month_num == MonthNumber(m.caps[3])
                 end_day == ToInt(m.caps[4])
                 year == ToInt(m.caps[5])
             IN  IF start_month_num = 0 \/ end_month_num = 0 THEN ResNone
                 ELSE ResRange(FormatDate(year, start_month_num, start_day),
                               FormatDate(year, end_month_num, end_day))

(***************************************************************************)
(* _validate_regex_input, lines 48-58.  An input is [type, chars]: type    *)
(* "str" for text, anything else for a value that is not text.             *)
(***************************************************************************)
MaxTextLen == 200

MaxSpaces == 50

MaxHyphens == 20

Text(chars) == [type |-> "str", chars |-> chars]

NotText(type) == [type |-> type, chars |-> <<>>]

ValidateRegexInputLenOffByOne(inp) ==
    /\ inp.type = "str"
    /\ Len(inp.chars) < MaxTextLen
    /\ Count(inp.chars, " ") <= MaxSpaces
    /\ Count(inp.chars, "-") <= MaxHyphens

ValidateRegexInput(inp) ==
    /\ inp.type = "str"
    /\ ~(Len(inp.chars) > MaxTextLen)
    /\ ~(Count(inp.chars, " ") > MaxSpaces \/ Count(inp.chars, "-") > MaxHyphens)

(***************************************************************************)
(* _parse_date_range_from_text, lines 368-408                              *)
(***************************************************************************)
\* lines 389-396: the parser registry, in order
ParserOrderIsoLate == <<"week", "month_range", "cross_month", "iso", "between", "year_at_end">>

ParserOrder == <<"week", "month_range", "iso", "cross_month", "between", "year_at_end">>

\* parser(text) for the parser of that name
ApplyParser(name, text, pads) ==
    CASE name = "week" -> ParseWeekFormat(text, pads)
      [] name = "month_range" -> ParseMonthRangeFormat(text)
      [] name = "iso" -> ParseIsoDateRange(text)
      [] name = "cross_month" -> ParseCrossMonthRange(text)
      [] name = "between" -> ParseBetweenFormat(text)
      [] name = "year_at_end" -> ParseYearAtEndFormat(text)

RECURSIVE TryParsers(_, _, _, _)
\* lines 399-404: the loop over the registry from index i, with the parsers
\* attempted so far; a raise of a parser leaves the loop (only TimeoutError is
\* caught, line 406, and no parser raises it)
TryParsers(i, text, pads, tried) ==
    IF i > Len(ParserOrder) THEN [result |-> ResNone, attempted |-> tried]
    ELSE LET r == ApplyParser(ParserOrder[i], text, pads)
             now == Append(tried, ParserOrder[i])
         IN  IF r.kind # "none" THEN [result |-> r, attempted |-> now]
             ELSE TryParsers(i + 1, text, pads, now)

\* line 383: text.lower().strip()
Normalize(chars) == Strip(Lower(chars))

\* the whole function: its outcome and the parsers it attempted
ParseDateRangeFromText(inp, pads) ==
    IF ~ValidateRegexInput(inp) THEN [result |-> ResNone, attempted |-> <<>>]
    ELSE TryParsers(1, Normalize(inp.chars), pads, <<>>)

(***************************************************************************)
(* More of str: split and join                                             *)
(***************************************************************************)
RECURSIVE Split(_, _)
\* s.split(c) for a single character c
Split(s, c) ==
    LET hits == {i \in 1..Len(s) : s[i] = c}
    IN  IF hits = {} THEN <<s>>
        ELSE <<SubSeq(s, 1, SetMin(hits) - 1)>>
                 \o Split(SubSeq(s, SetMin(hits) + 1, Len(s)), c)

RECURSIVE Join(_, _)
\* sep.join(parts)
Join(parts, sep) ==
    IF parts = <<>> THEN <<>>
    ELSE IF Len(parts) = 1 THEN parts[1]
    ELSE parts[1] \o sep \o Join(Tail(parts), sep)

\* [f(x) for x in xs if keep(x)], for sequences
SelectNonEmpty(xs) == SelectSeq(xs, LAMBDA x : x # <<>>)

(***************************************************************************)
(* Security exclusion filters, lines 61-140, and their configuration,      *)
(* constants.py lines 134-170                                              *)
(***************************************************************************)
ENABLE_INCIDENT_CATEGORY_FILTERING == TRUE

EXCLUDED_INCIDENT_CATEGORIES == <<
    <<"P","a","y","r","o","l","l">>,
    <<"P","e","o","p","l","e"," ","S","u","p","p","o","r","t">>,
    <<"W","o","r","k","p","l","a","c","e">> >>

ENABLE_SC_CATALOG_FILTERING == TRUE

EXCLUDED_SC_CATALOG_CATEGORIES == <<
    <<"P","e","o","p","l","e","_","P","a","y">> >>

EXCLUDED_SC_ASSIGNMENT_GROUPS == <<
    <<"P","a","y","r","o","l","l"," ","M","a","n","a","g","e","r","s">>,
    <<"P","a","y","r","o","l","l"," ","R","e","p","r","e","s","e","n","t","a","t","i","v","e","s">>,
    <<"P","a","y","r","o","l","l"," ","S","p","e","c","i","a","l","i","s","t","s">>,
    <<"P","e","o","p","l","e"," ","B","u","s","i","n","e","s","s"," ","P","a","r","t","n","e","r","s">>,
    <<"P","e","o","p","l","e"," ","B","u","s","i","n","e","s","s"," ","P","a","r","t","n","e","r","s"," ","-"," ","S","G","S","C">>,
    <<"P","e","o","p","l","e"," ","K","n","o","w","l","e","d","g","e"," ","A","p","p","r","o","v","e","r","s">>,
    <<"P","e","o","p","l","e"," ","S","u","p","p","o","r","t"," ","T","i","e","r"," ","1">>,
    <<"P","e","o","p","l","e"," ","S","u","p","p","o","r","t"," ","T","i","e","r"," ","2">>,
    <<"P","e","o","p","l","e"," ","T","e","c","h","n","o","l","o","g","y"," ","T","e","a","m">>,
    <<"T","a","l","e","n","t"," ","A","c","q","u","i","s","i","t","i","o","n">>,
    <<"S","G","_","B","e","n","e","f","i","t","s"," ","A","l","l","o","w","e","d"," ","V","a","r","i","a","b","l","e"," ","V","i","e","w">> >>

SC_CATALOG_TABLES == {"sc_request", "sc_req_item", "sc_task"}

S_category_ne == <<"c","a","t","e","g","o","r","y","!","=">>

S_catalog_ne == <<"c","a","t","_","i","t","e","m",".","s","c","_","c","a","t","a","l","o","g","s",".","t","i","t","l","e","!","=">>

S_group_ne == <<"a","s","s","i","g","n","m","e","n","t","_","g","r","o","u","p",".","n","a","m","e","!","=">>

S_and == <<"^">>

\* lines 87-88: the category exclusions, joined with ^
CategoryQuery ==
    Join([i \in 1..Len(EXCLUDED_INCIDENT_CATEGORIES) |->
              S_category_ne \o EXCLUDED_INCIDENT_CATEGORIES[i]], S_and)

\* a mutant of the function below: the toggle is not looked at
CategoryFilterIgnoresToggle(enabled, table_name, existing_query) ==
    IF table_name # "incident"
    THEN existing_query
    ELSE IF existing_query # <<>> THEN existing_query \o S_and \o CategoryQuery
    ELSE CategoryQuery

\* _apply_incident_category_filter, lines 81-93, under a given value of the
\* module's ENABLE_INCIDENT_CATEGORY_FILTERING
CategoryFilterUnder(enabled, table_name, existing_query) ==
    IF table_name # "incident" \/ ~enabled
    THEN existing_query
    ELSE IF existing_query # <<>> THEN existing_query \o S_and \o CategoryQuery
    ELSE CategoryQuery

\* a mutant of the function below: a caller's query is left without the
\* exclusions
ApplyIncidentCategoryFilterOnlyWhenEmpty(table_name, existing_query) ==
    IF table_name # "incident" \/ ~ENABLE_INCIDENT_CATEGORY_FILTERING
    THEN existing_query
    ELSE IF existing_query # <<>> THEN existing_query
    ELSE CategoryQuery

\* _apply_incident_category_filter, lines 61-93, as deployed
ApplyIncidentCategoryFilter(table_name, existing_query) ==
    CategoryFilterUnder(ENABLE_INCIDENT_CATEGORY_FILTERING, table_name, existing_query)

\* lines 122-135: the catalog and assignment-group exclusions, joined with ^
ExclusionQuery ==
    Join([i \in 1..Len(EXCLUDED_SC_CATALOG_CATEGORIES) |->
              S_catalog_ne \o EXCLUDED_SC_CATALOG_CATEGORIES[i]]
         \o [i \in 1..Len(EXCLUDED_SC_ASSIGNMENT_GROUPS) |->
              S_group_ne \o EXCLUDED_SC_ASSIGNMENT_GROUPS[i]], S_and)

\* _apply_sc_catalog_filter, lines 118-140, under a given value of the
\* module's ENABLE_SC_CATALOG_FILTERING
CatalogFilterUnder(enabled, table_name, existing_query) ==
    IF table_name \notin SC_CATALOG_TABLES \/ ~enabled
    THEN existing_query
    ELSE IF existing_query # <<>> THEN existing_query \o S_and \o ExclusionQuery
    ELSE ExclusionQuery

\* _apply_sc_catalog_filter, lines 96-140, as deployed
ApplyScCatalogFilter(table_name, existing_query) ==
    CatalogFilterUnder(ENABLE_SC_CATALOG_FILTERING, table_name, existing_query)

\* both filters in the order every facade operation applies them
ApplySecurityFilters(table_name, query) ==
    ApplyScCatalogFilter(table_name, ApplyIncidentCategoryFilter(table_name, query))

(***************************************************************************)
(* Value rewriters, lines 410-502                                          *)
(***************************************************************************)
S_priority_eq == <<"p","r","i","o","r","i","t","y","=">>

S_or == <<"^","O","R">>

S_caller_ne == <<"c","a","l","l","e","r","_","i","d","!","=">>

BracketsAndQuotes == {"[", "]", "\"", "'"}

Quotes == {"\"", "'"}

\* a mutant of the function below: the P stays
NormalizePriorityValueKeepsPrefix(priority) == priority

\* _normalize_priority_value, lines 410-414
NormalizePriorityValue(priority) ==
    IF StartsWith(Upper(priority), <<"P">>) /\ Len(priority) > 1
    THEN SubSeq(priority, 2, Len(priority))
    ELSE priority

\* _clean_priority_input, lines 417-419
CleanPriorityInput(value) == StripChars(value, BracketsAndQuotes)

\* [f(xs[i]) : i], for sequences
MapSeq(xs, f(_)) == [i \in 1..Len(xs) |-> f(xs[i])]

StripItem(x) == StripChars(Strip(x), Quotes)

PriorityCondition(x) == S_priority_eq \o x

\* _process_comma_separated_priorities, lines 422-432
ProcessCommaSeparatedPriorities(value) ==
    LET clean_value == CleanPriorityInput(value)
        priorities == MapSeq(Split(clean_value, ","), StripItem)
        priority_nums == MapSeq(SelectNonEmpty(priorities), NormalizePriorityValue)
    IN  Join(MapSeq(priority_nums, PriorityCondition), S_or)

\* _format_single_priority, lines 435-438
FormatSinglePriority(value) == S_priority_eq \o NormalizePriorityValue(value)

\* _parse_priority_list, lines 441-468
ParsePriorityList(value) ==
    IF Strip(value) = <<>> THEN <<>>
    ELSE LET v == Strip(value)
         IN  IF Contains(v, S_or) THEN v
             ELSE IF Contains(v, <<",">>) THEN ProcessCommaSeparatedPriorities(v)
             ELSE FormatSinglePriority(v)

S_logicmonitor == <<"l","o","g","i","c","m","o","n","i","t","o","r">>

S_logicmonitor_id == <<"1","7","2","7","3","3","9","e","4","7","d","9","9","1","9","0","c","4","3","d","3","1","7","1","e","3","6","d","4","3","a","d">>

CallerCondition(x) == S_caller_ne \o x

\* _parse_caller_exclusions, lines 470-502
ParseCallerExclusions(value) ==
    IF Strip(value) = <<>> THEN <<>>
    ELSE LET v == Strip(value)
         IN  IF Lower(v) = S_logicmonitor THEN S_caller_ne \o S_logicmonitor_id
             ELSE IF Contains(v, <<",">>)
             THEN LET clean_value == StripChars(v, BracketsAndQuotes)
                      caller_ids == MapSeq(Split(clean_value, ","), StripItem)
                  IN  Join(MapSeq(SelectNonEmpty(caller_ids), CallerCondition), S_and)
             ELSE IF ~StartsWith(v, S_caller_ne) THEN S_caller_ne \o v
             ELSE v

(***************************************************************************)
(* Condition handlers and the dispatcher, lines 227-233 and 504-603.  A    *)
(* handler answers [some, frag]: some = FALSE stands for None.             *)
(***************************************************************************)
Nothing == [some |-> FALSE, frag |-> <<>>]

Some(frag) == [some |-> TRUE, frag |-> frag]

S_sys_created_on == <<"s","y","s","_","c","r","e","a","t","e","d","_","o","n">>

S_BETWEEN == <<"B","E","T","W","E","E","N">>

S_CONTAINS == <<"C","O","N","T","A","I","N","S">>

S_priority == <<"p","r","i","o","r","i","t","y">>

S_exclude_caller == <<"e","x","c","l","u","d","e","_","c","a","l","l","e","r">>

S_caller_exclusion == <<"c","a","l","l","e","r","_","e","x","c","l","u","s","i","o","n">>

S_complete_query == <<"_","c","o","m","p","l","e","t","e","_","q","u","e","r","y">>

S_complete_caller_exclusion == <<"_","c","o","m","p","l","e","t","e","_","c","a","l","l","e","r","_","e","x","c","l","u","s","i","o","n">>

S_ge == <<">", "=">>

S_le == <<"<", "=">>

\* _has_operator_in_value, lines 227-229
HasOperatorInValue(value) ==
    \E op \in {S_ge, S_le, <<">">>, <<"<">>, <<"=">>} : Contains(value, op)

\* _is_complete_servicenow_filter, lines 231-233
IsCompleteServicenowFilter(value) == Contains(value, S_or) \/ Contains(value, <<"O", "N">>)

\* the BETWEEN fragment of line 522
DateBetweenFragment(start_date, end_date) ==
    <<"s","y","s","_","c","r","e","a","t","e","d","_","o","n","B","E","T","W","E","E","N","j","a","v","a","s","c","r","i","p","t",":","g","s",".","d","a","t","e","G","e","n","e","r","a","t","e","(","'">>
        \o start_date \o <<"'",",","'","0","0",":","0","0",":","0","0","'",")","@","j","a","v","a","s","c","r","i","p","t",":","g","s",".","d","a","t","e","G","e","n","e","r","a","t","e","(","'">>
        \o end_date \o <<"'",",","'","2","3",":","5","9",":","5","9","'",")">>

\* _handle_date_range_condition, lines 509-523; a raise of the date parser
\* passes through it
DateRangeOutcome(date_range) ==
    IF date_range.kind = "raise" THEN [raised |-> TRUE, res |-> Nothing]
    ELSE IF date_range.kind = "range"
    THEN [raised |-> FALSE,
          res |-> Some(DateBetweenFragment(date_range.start, date_range.end))]
    ELSE [raised |-> FALSE, res |-> Nothing]

\* a mutant of the handler below: the field is not looked at
HandleDateRangeConditionAnyField(field, value, pads) ==
    IF Contains(value, S_BETWEEN) THEN [raised |-> FALSE, res |-> Some(value)]
    ELSE IF StartsWith(value, S_ge) \/ StartsWith(value, S_le)
    THEN [raised |-> FALSE, res |-> Some(field \o value)]
    ELSE DateRangeOutcome(ParseDateRangeFromText(Text(value), pads).result)

HandleDateRangeCondition(field, value, pads) ==
    IF field # S_sys_created_on THEN [raised |-> FALSE, res |-> Nothing]
    ELSE IF Contains(value, S_BETWEEN) THEN [raised |-> FALSE, res |-> Some(value)]
    ELSE IF StartsWith(value, S_ge) \/ StartsWith(value, S_le)
    THEN [raised |-> FALSE, res |-> Some(field \o value)]
    ELSE DateRangeOutcome(ParseDateRangeFromText(Text(value), pads).result)

\* _handle_priority_condition, lines 526-530
HandlePriorityCondition(field, value) ==
    IF field = S_priority /\ (Contains(value, <<",">>) \/ StartsWith(Upper(value), <<"P">>))
    THEN Some(ParsePriorityList(value))
    ELSE Nothing

\* _handle_caller_exclusion_condition, lines 533-537
HandleCallerExclusionCondition(field, value) ==
    IF field = S_exclude_caller \/ field = S_caller_exclusion
    THEN Some(ParseCallerExclusions(value))
    ELSE Nothing

\* _handle_servicenow_filter_condition, lines 540-544
HandleServicenowFilterCondition(field, value) ==
    IF IsCompleteServicenowFilter(value) THEN Some(value) ELSE Nothing

\* _handle_operator_condition, lines 547-551
HandleOperatorCondition(field, value) ==
    IF HasOperatorInValue(value) THEN Some(field \o value) ELSE Nothing

DropLast(s, n) == SubSeq(s, 1, Len(s) - n)

\* _handle_suffix_operator_condition, lines 554-570
HandleSuffixOperatorCondition(field, value) ==
    IF EndsWith(field, <<"_","g","t","e">>) THEN Some(DropLast(field, 4) \o S_ge \o value)
    ELSE IF EndsWith(field, <<"_","l","t","e">>) THEN Some(DropLast(field, 4) \o S_le \o value)
    ELSE IF EndsWith(field, <<"_","g","t">>) THEN Some(DropLast(field, 3) \o <<">">> \o value)
    ELSE IF EndsWith(field, <<"_","l","t">>) THEN Some(DropLast(field, 3) \o <<"<">> \o value)
    ELSE IF Contains(Upper(field), S_CONTAINS) THEN Some(field)
    ELSE Nothing

\* _handle_exact_match_condition, lines 573-575
HandleExactMatchCondition(field, value) == field \o <<"=">> \o value

\* lines 596-603: the result of the first handler that returns one, the
\* exact match if none does
FirstResult(h1, h2, h3, h4, h5, h6, exact) ==
    IF h1.raised THEN [raised |-> TRUE, frag |-> <<>>]
    ELSE IF h1.res.some THEN [raised |-> FALSE, frag |-> h1.res.frag]
    ELSE IF h2.some THEN [raised |-> FALSE, frag |-> h2.frag]
    ELSE IF h3.some THEN [raised |-> FALSE, frag |-> h3.frag]
    ELSE IF h4.some THEN [raised |-> FALSE, frag |-> h4.frag]
    ELSE IF h5.some THEN [raised |-> FALSE, frag |-> h5.frag]
    ELSE IF h6.some THEN [raised |-> FALSE, frag |-> h6.frag]
    ELSE [raised |-> FALSE, frag |-> exact]

\* _build_query_condition, lines 578-603: [raised, frag]
BuildQueryCondition(field, value, pads) ==
    IF field = S_complete_query \/ field = S_complete_caller_exclusion
    THEN [raised |-> FALSE, frag |-> value]
    ELSE FirstResult(HandleDateRangeCondition(field, value, pads),
                     HandlePriorityCondition(field, value),
                     HandleCallerExclusionCondition(field, value),
                     HandleServicenowFilterCondition(field, value),
                     HandleOperatorCondition(field, value),
                     HandleSuffixOperatorCondition(field, value),
                     HandleExactMatchCondition(field, value))

\* line 614: "^".join(query_parts), unless a condition raised
JoinConditions(conds) ==
    IF \E i \in 1..Len(conds) : conds[i].raised
    THEN [raised |-> TRUE, query |-> <<>>]
    ELSE [raised |-> FALSE,
          query |-> Join([i \in 1..Len(conds) |-> conds[i].frag], S_and)]

\* _build_query_string, lines 605-614.  A FilterMapping is a sequence of
\* <<field, value>> pairs in insertion order; <<>> also stands for None.
BuildQueryString(filters, pads) ==
    JoinConditions([i \in 1..Len(filters) |->
                       BuildQueryCondition(filters[i][1], filters[i][2], pads)])

(***************************************************************************)
(* _encode_query_string, lines 616-621: urllib.parse.quote with            *)
(* safe='=<>&^():@!'                                                       *)
(***************************************************************************)
\* never quoted: letters, digits and _.-~, and the characters named safe
IsSafeChar(c) ==
    \/ IsWord(c)
    \/ c \in {".", "-", "~"}
    \/ c \in {"=", "<", ">", "&", "^", "(", ")", ":", "@", "!"}

\* the printable ASCII characters, from code 32 (the blank) to code 126; the
\* backtick, which a string of this language cannot hold, is spelled out
AsciiPrintable ==
    <<" ","!","\"","#","$","%","&","'","(",")","*","+",",","-",".","/","0","1","2","3","4","5","6","7","8","9",":",";","<","=",">","?","@","A","B","C","D","E","F","G","H","I","J","K","L","M","N","O","P","Q","R","S","T","U","V","W","X","Y","Z","[","\\","]","^","_","<backtick>","a","b","c","d","e","f","g","h","i","j","k","l","m","n","o","p","q","r","s","t","u","v","w","x","y","z","{","|","}","~">>

HexDigits == <<"0","1","2","3","4","5","6","7","8","9","A","B","C","D","E","F">>

\* ord(c)
CharCode(c) == IndexOf(AsciiPrintable, c) + 31

\* a mutant of the function below: the percent sign is left as it is
PercentCodeKeepsPercent(c) ==
    IF c = "%" THEN <<c>>
    ELSE <<"%", HexDigits[(CharCode(c) \div 16) + 1], HexDigits[(CharCode(c) % 16) + 1]>>

\* %XX of the character's byte
PercentCode(c) ==
    <<"%", HexDigits[(CharCode(c) \div 16) + 1], HexDigits[(CharCode(c) % 16) + 1]>>

EncodeChar(c) == IF IsSafeChar(c) THEN <<c>> ELSE PercentCode(c)

RECURSIVE EncodeQueryString(_)
\* quote() works character by character: the encoding of a text is the
\* encodings of its two halves in a row
EncodeQueryString(query_string) ==
    IF query_string = <<>> THEN <<>>
    ELSE IF Len(query_string) = 1 THEN EncodeChar(query_string[1])
    ELSE LET half == Len(query_string) \div 2
         IN  EncodeQueryString(SubSeq(query_string, 1, half))
                 \o EncodeQueryString(SubSeq(query_string, half + 1, Len(query_string)))

(***************************************************************************)
(* Bounds of the executor model                                            *)
(***************************************************************************)
MaxResultsBound == 5

MaxPageSize == 3

(***************************************************************************)
(* The transport collaborator (make_nws_request).  It answers with None,   *)
(* with an empty mapping, with a mapping that has no usable `result`, with *)
(* a mapping whose `result` holds n records, or it raises.                 *)
(***************************************************************************)
RespNone == [kind |-> "none", recs |-> <<>>]

RespEmptyMap == [kind |-> "emptymap", recs |-> <<>>]

RespNoResult == [kind |-> "noresult", recs |-> <<>>]

RespRaise == [kind |-> "raise", recs |-> <<>>]

RespPage(n, first) == [kind |-> "page", recs |-> [i \in 1..n |-> first + i - 1]]

\* Page lengths the transport may answer with: empty, one record, just below
\* and at the page size, oversized, and around the caller's ceiling.
PageLengths(ps, mx) ==
    {n \in 0..(ps + 1) : \/ n <= 1
                         \/ n >= ps - 1
                         \/ (n >= mx - 1 /\ n <= mx + 1)}

\* A base URL: the table, the text after `sysparm_query=` (has_query tells
\* whether the parameter is there at all), the query as assembled before any
\* percent-encoding, and whether the operation percent-encoded it.
Url(table, query, has_query, assembled, encoded) ==
    [table |-> table, query |-> query, has_query |-> has_query,
     assembled |-> assembled, encoded |-> encoded]

NoUrl == Url("-", <<>>, FALSE, <<>>, FALSE)

\* one request as the transport sees it; a request that is not paginated
\* carries no offset and limit (-1)
Request(u, off, lim) == [url |-> u, offset |-> off, limit |-> lim]

(***************************************************************************)
(* _make_paginated_request, lines 623-651                                  *)
(***************************************************************************)
\* line 632: while len(all_results) < max_results
LoopConditionOffByOne(all, mx) == Len(all) <= mx

LoopCondition(all, mx) == Len(all) < mx

\* lines 636-641: not data, no `result`, or an empty `result`
NoData(resp) ==
    \/ resp.kind \in {"none", "emptymap", "noresult"}
    \/ (resp.kind = "page" /\ Len(resp.recs) = 0)

\* line 643: all_results.extend(batch_results)
ExtendReplaces(all, recs) == recs

Extend(all, recs) == all \o recs

\* line 646: len(batch_results) < page_size
ShortPageIgnored(recs, ps) == FALSE

ShortPage(recs, ps) == Len(recs) < ps

\* line 649: offset += page_size
NextOffset(off, ps) == off + ps

\* line 651: all_results[:max_results]
TruncateForgotten(all, mx) == all

Truncate(all, mx) == SubSeq(all, 1, Min(Len(all), mx))

\* Arriving at the `while` of line 632 with the given accumulated results and
\* offset: either the next page request is issued (lines 633-634) and the
\* coroutine suspends, or the loop ends and line 651 returns.
LoopEntry(all, off) ==
    IF LoopCondition(all, max_results')
    THEN /\ requests' = Append(requests, [offset |-> off, limit |-> page_size'])
         /\ sent' = Append(sent, Request(url', off, page_size'))
         /\ pc' = "await"
         /\ batch' = batch
    ELSE /\ requests' = requests
         /\ sent' = sent
         /\ pc' = "done"
         /\ batch' = Truncate(all, max_results')

\* lines 629-634: the call, up to the first await
ExecCall(u, mx, ps) ==
    /\ url' = u
    /\ max_results' = mx
    /\ page_size' = ps
    /\ all_results' = <<>>
    /\ offset' = 0
    /\ responses' = <<>>
    /\ requests' = IF LoopCondition(<<>>, mx)
                   THEN <<[offset |-> 0, limit |-> ps]>>
                   ELSE <<>>
    /\ sent' = IF LoopCondition(<<>>, mx)
               THEN Append(sent, Request(u, 0, ps))
               ELSE sent
    /\ pc' = IF LoopCondition(<<>>, mx) THEN "await" ELSE "done"
    /\ batch' = IF LoopCondition(<<>>, mx) THEN <<>> ELSE Truncate(<<>>, mx)
    /\ UNCHANGED next_id

\* lines 634-651: the transport answers and the loop body runs up to the
\* next await or the return
ExecReply(resp) ==
    /\ pc = "await"
    /\ responses' = Append(responses, resp)
    /\ next_id' = next_id + Len(resp.recs)
    /\ UNCHANGED <<url, max_results, page_size>>
    /\ IF NoData(resp)
       THEN /\ pc' = "done"
            /\ batch' = Truncate(all_results, max_results)
            /\ UNCHANGED <<all_results, offset, requests, sent>>
       ELSE /\ all_results' = Extend(all_results, resp.recs)
            /\ IF ShortPage(resp.recs, page_size)
               THEN /\ pc' = "done"
                    /\ batch' = Truncate(all_results', max_results)
                    /\ UNCHANGED <<offset, requests, sent>>
               ELSE /\ offset' = NextOffset(offset, page_size)
                    /\ LoopEntry(all_results', offset')

\* a mutant of ExecFault: the fault is caught and what was accumulated returned
ExecFaultSwallowed ==
    /\ pc = "await"
    /\ responses' = Append(responses, RespRaise)
    /\ pc' = "done"
    /\ batch' = Truncate(all_results, max_results)
    /\ UNCHANGED <<url, max_results, page_size, all_results, offset, requests,
                   next_id, sent>>

\* line 634: make_nws_request raises; nothing in the executor catches it
ExecFault ==
    /\ pc = "await"
    /\ responses' = Append(responses, RespRaise)
    /\ pc' = "raised"
    /\ UNCHANGED <<url, max_results, page_size, all_results, offset, requests,
                   batch, next_id, sent>>

(***************************************************************************)
(* The components that are not under check stay as they start              *)
(***************************************************************************)
IdleExec ==
    /\ pc = "idle"
    /\ url = NoUrl
    /\ max_results = 0
    /\ page_size = 1
    /\ all_results = <<>>
    /\ offset = 0
    /\ requests = <<>>
    /\ responses = <<>>
    /\ batch = <<>>
    /\ next_id = 1
    /\ sent = <<>>

IdleParse ==
    /\ p_input = NotText("none")
    /\ p_pc = "idle"
    /\ p_result = ResNone
    /\ p_attempted = <<>>

\* the mapping an operation returns.  shape: "result_message" (a `result`
\* and a `message`), "result_only", "error", or "raw" (the transport's
\* response handed on as it came: message names its kind).
Return(shape, result, message, keyword) ==
    [shape |-> shape, result |-> result, message |-> message,
     count |-> Len(result), keyword |-> keyword]

NoReturn == Return("none", <<>>, "-", <<>>)

IdleCall ==
    /\ c_fn = "-"
    /\ c_in = <<>>
    /\ c_pc = "idle"
    /\ c_out = <<>>

IdleTasks == tasks = <<>>

IdleFacade ==
    /\ f_pc = "idle"
    /\ f_op = "-"
    /\ f_in = <<>>
    /\ f_table = "-"
    /\ f_keywords = <<>>
    /\ f_kw = 0
    /\ f_return = NoReturn

(***************************************************************************)
(* The executor called directly: one execution per behaviour               *)
(***************************************************************************)
PageCall ==
    /\ pc = "idle"
    /\ \E mx \in 0..MaxResultsBound, ps \in 1..MaxPageSize : ExecCall(NoUrl, mx, ps)
    /\ UNCHANGED <<parse_vars, call_vars, strftime_pads, tasks, facade_vars>>

PageReply ==
    /\ \E n \in PageLengths(page_size, max_results) :
           ExecReply(RespPage(n, next_id))
    /\ UNCHANGED <<parse_vars, call_vars, strftime_pads, tasks, facade_vars>>

PageNone ==
    /\ ExecReply(RespNone)
    /\ UNCHANGED <<parse_vars, call_vars, strftime_pads, tasks, facade_vars>>

PageMalformed ==
    /\ \E resp \in {RespEmptyMap, RespNoResult} : ExecReply(resp)
    /\ UNCHANGED <<parse_vars, call_vars, strftime_pads, tasks, facade_vars>>

PageFault ==
    /\ ExecFault
    /\ UNCHANGED <<parse_vars, call_vars, strftime_pads, tasks, facade_vars>>

NextPage == PageCall \/ PageReply \/ PageNone \/ PageMalformed \/ PageFault

InitPage ==
    IdleExec /\ IdleParse /\ IdleFacade /\ IdleCall /\ IdleTasks /\ strftime_pads = FALSE

SpecPage == InitPage /\ [][NextPage]_vars

\* every request of the transport resolves (the transport enforces its own
\* timeout) and the coroutine is resumed
SpecPageFair == SpecPage /\ WF_vars(NextPage)

(***************************************************************************)
(* Observations on one execution of the executor                           *)
(***************************************************************************)
RECURSIVE Received(_)
\* the in-order concatenation of the records of the pages received
Received(resps) ==
    IF resps = <<>> THEN <<>>
    ELSE Received(SubSeq(resps, 1, Len(resps) - 1)) \o resps[Len(resps)].recs

Returned == pc = "done"

Terminated == pc \in {"done", "raised"}

\* every answer so far was a page of exactly page_size records
AllFull ==
    \A i \in 1..Len(responses) :
        responses[i].kind = "page" /\ Len(responses[i].recs) = page_size

\* an answer that ends the data: absent, no `result`, no records, short page
IsStop(resp) ==
    \/ resp.kind \in {"none", "emptymap", "noresult"}
    \/ (resp.kind = "page" /\ Len(resp.recs) < page_size)

StopSeen == \E i \in 1..Len(responses) : IsStop(responses[i])

\* a transport failure that is not a fault: no data, or malformed data
IsSoftFailure(resp) == resp.kind \in {"none", "emptymap", "noresult"}

LastResponse == responses[Len(responses)]

\* C2: the batch returned is exactly the first min(max_results, N) records of
\* the in-order concatenation of the pages received, N the number of records
\* received, and never holds more than max_results records.
C2_BatchIsPrefixOfReceived ==
    Returned =>
        /\ batch = SubSeq(Received(responses), 1,
                          Min(max_results, Len(Received(responses))))
        /\ Len(batch) <= max_results

\* C2 witness: the last page overshot the ceiling and the batch was cut
C2_Witness ==
    /\ Returned
    /\ Len(responses) >= 2
    /\ Len(Received(responses)) > max_results
    /\ Len(batch) = max_results

\* C3: against a transport answering exactly page_size records every time, the
\* executor performs exactly ceil(max_results/page_size) requests, at offsets
\* 0, page_size, 2*page_size, ..., and returns at most max_results records.
C3_FullPagesRequestCount ==
    (Returned /\ AllFull) =>
        /\ Len(requests) = CeilDiv(max_results, page_size)
        /\ \A i \in 1..Len(requests) :
               /\ requests[i].offset = (i - 1) * page_size
               /\ requests[i].limit = page_size
        /\ Len(batch) <= max_results

\* C3 witness: three full pages were needed, the last one overshooting
C3_Witness ==
    /\ Returned
    /\ AllFull
    /\ Len(requests) = 3
    /\ max_results % page_size # 0

\* C4: once a page answer is absent, has no `result`, has zero records or is
\* shorter than page_size, the executor has returned (without raising) and no
\* further request is ever issued.
C4_StopIsFinal ==
    /\ [](StopSeen => (pc = "done" /\ IsStop(LastResponse)))
    /\ [][StopSeen => (requests' = requests /\ pc' = "done")]_vars

\* C4 witness: a later page was short, after a full first page
C4_Witness ==
    /\ Len(responses) = 2
    /\ LastResponse.kind = "page"
    /\ Len(LastResponse.recs) \in 1..(page_size - 1)
    /\ pc = "done"

C6_TerminatesWithinPageBound ==
    /\ [](Len(requests) <= CeilDiv(max_results, page_size))
    /\ <>Terminated

\* C6 witness: the bound is met with equality on more than one request
C6_Witness ==
    /\ Terminated
    /\ Len(requests) = CeilDiv(max_results, page_size)
    /\ Len(requests) >= 2

(***************************************************************************)
(* The date parser called directly: Init draws the argument, the action    *)
(* applies the function.                                                   *)
(***************************************************************************)
T_week35 == \* week 35 of 2025
    <<"w","e","e","k"," ","3","5"," ","o","f"," ","2","0","2","5">>

T_Week35 == \* Week 35 2025
    <<"W","e","e","k"," ","3","5"," ","2","0","2","5">>

T_week_year0 == \* week 1 of 0000
    <<"w","e","e","k"," ","1"," ","o","f"," ","0","0","0","0">>

T_week_last == \* week 52 of 9999
    <<"w","e","e","k"," ","5","2"," ","o","f"," ","9","9","9","9">>

T_week0_year1 == \* week 0 of 0001
    <<"w","e","e","k"," ","0"," ","o","f"," ","0","0","0","1">>

T_week99 == \* week 99 2024
    <<"w","e","e","k"," ","9","9"," ","2","0","2","4">>

T_week_y999 == \* week 5 of 0999
    <<"w","e","e","k"," ","5"," ","o","f"," ","0","9","9","9">>

T_month_range == \* August 25-31, 2025
    <<"A","u","g","u","s","t"," ","2","5","-","3","1",","," ","2","0","2","5">>

T_foo_range == \* foo 25-31, 2025
    <<"f","o","o"," ","2","5","-","3","1",","," ","2","0","2","5">>

T_iso == \* 2025-08-25 to 2025-08-31
    <<"2","0","2","5","-","0","8","-","2","5"," ","t","o"," ","2","0","2","5","-","0","8","-","3","1">>

T_cross == \* august 25 2025 to september 5, 2025
    <<"a","u","g","u","s","t"," ","2","5"," ","2","0","2","5"," ","t","o"," ","s","e","p","t","e","m","b","e","r"," ","5",","," ","2","0","2","5">>

T_from_cross == \* from july 1, 2025 to august 2 2025
    <<"f","r","o","m"," ","j","u","l","y"," ","1",","," ","2","0","2","5"," ","t","o"," ","a","u","g","u","s","t"," ","2"," ","2","0","2","5">>

T_between == \* between may 1, 2025 and june 30, 2025
    <<"b","e","t","w","e","e","n"," ","m","a","y"," ","1",","," ","2","0","2","5"," ","a","n","d"," ","j","u","n","e"," ","3","0",","," ","2","0","2","5">>

T_year_end == \* march 3 to april 4, 2025
    <<"m","a","r","c","h"," ","3"," ","t","o"," ","a","p","r","i","l"," ","4",","," ","2","0","2","5">>

T_day99 == \* may 1 to june 99 0999
    <<"m","a","y"," ","1"," ","t","o"," ","j","u","n","e"," ","9","9"," ","0","9","9","9">>

T_hello == \* hello
    <<"h","e","l","l","o">>

Phrases == {T_week35, T_Week35, T_week_year0, T_week_last, T_week0_year1, T_week99, T_week_y999, T_month_range, T_foo_range, T_iso, T_cross, T_from_cross, T_between, T_year_end, T_day99, T_hello}

Pad(c, n) == [i \in 1..n |-> c]

\* one phrase, two phrases in a row, and texts at and just over the limits of
\* the guard
PlainTexts ==
    {<<>>} \cup Phrases \cup {a \o <<" ">> \o b : a \in Phrases, b \in Phrases}

LimitTexts ==
    {Pad("x", n) \o <<" ">> \o T_week35 :
         n \in {MaxTextLen - Len(T_week35) - 1, MaxTextLen - Len(T_week35)}}
    \cup {<<" ">> \o T_week35 \o Pad(" ", n) :
         n \in {MaxSpaces - Count(T_week35, " ") - 1, MaxSpaces - Count(T_week35, " ")}}
    \cup {Pad("-", n) \o T_iso :
         n \in {MaxHyphens - Count(T_iso, "-"), MaxHyphens - Count(T_iso, "-") + 1}}

ParseInputs ==
    {Text(t) : t \in PlainTexts \cup LimitTexts}
    \cup {NotText("none"), NotText("int"), NotText("list")}

InitParse ==
    /\ p_input \in ParseInputs
    /\ p_pc = "ready"
    /\ p_result = ResNone
    /\ p_attempted = <<>>
    /\ strftime_pads \in BOOLEAN
    /\ IdleExec
    /\ IdleFacade
    /\ IdleTasks
    /\ IdleCall

\* _parse_date_range_from_text(p_input) runs to its return, or to the raise
\* of a parser
ParseCall ==
    /\ p_pc = "ready"
    /\ LET out == ParseDateRangeFromText(p_input, strftime_pads)
       IN  /\ p_result' = out.result
           /\ p_attempted' = out.attempted
           /\ p_pc' = IF out.result.kind = "raise" THEN "raised" ELSE "done"
    /\ UNCHANGED <<p_input, strftime_pads, tasks, exec_vars, facade_vars, call_vars>>

NextParse == ParseCall

SpecParse == InitParse /\ [][NextParse]_vars

(***************************************************************************)
(* Observations on one call of the date parser                             *)
(***************************************************************************)
ParseEnded == p_pc \in {"done", "raised"}

\* what the guard is specified to reject
GuardRejects(inp) ==
    \/ inp.type # "str"
    \/ Len(inp.chars) > 200
    \/ Count(inp.chars, " ") > 50
    \/ Count(inp.chars, "-") > 20

\* the six grammars in the order the specification fixes
GrammarOrder == <<"week", "month_range", "iso", "cross_month", "between", "year_at_end">>

\* what each grammar answers, on its own, for the normalized text
GrammarOutcome(i) == ApplyParser(GrammarOrder[i], Normalize(p_input.chars), strftime_pads)

\* the first grammar in that order that does not answer "no match"; 7 if none
FirstReporting ==
    LET hits == {i \in 1..6 : GrammarOutcome(i).kind # "none"}
    IN  IF hits = {} THEN 7 ELSE SetMin(hits)

\* the normalized text is exactly `YYYY-MM-DD to YYYY-MM-DD`
IsIsoPairText ==
    /\ p_input.type = "str"
    /\ Len(Normalize(p_input.chars)) = 24
    /\ MatchHere(IsoPattern, 1, Normalize(p_input.chars), 1).ok

\* the text is exactly `week N [of] YYYY`, in any letter case
IsWeekText ==
    /\ p_input.type = "str"
    /\ LET t == Lower(p_input.chars)
           m == MatchHere(WeekPattern, 1, t, 1)
       IN  /\ m.ok
           /\ t \in {<<"w","e","e","k"," ">> \o m.caps[1] \o <<" ">> \o m.caps[2],
                     <<"w","e","e","k"," ">> \o m.caps[1] \o <<" ","o","f"," ">> \o m.caps[2]}

WeekTextNumber == ToInt(MatchHere(WeekPattern, 1, Lower(p_input.chars), 1).caps[1])

WeekTextYear == ToInt(MatchHere(WeekPattern, 1, Lower(p_input.chars), 1).caps[2])

\* C7: an input that is not text, is longer than 200 characters, or holds more
\* than 50 spaces or more than 20 hyphens gives "no match" with no grammar
\* attempted; an input within the limits, also one exactly at 200 characters,
\* 50 spaces or 20 hyphens, passes the guard and reaches the grammars.
C7_GuardRejectsWithoutParsing ==
    ParseEnded =>
        /\ GuardRejects(p_input) => (p_result = ResNone /\ p_attempted = <<>> /\ p_pc = "done")
        /\ ~GuardRejects(p_input) => (Len(p_attempted) >= 1 /\ p_attempted[1] = "week")

\* C7 witness: a 201-character text that holds a week phrase was rejected
C7_Witness ==
    /\ p_pc = "done"
    /\ p_input.type = "str"
    /\ Len(p_input.chars) = 201
    /\ Contains(p_input.chars, T_week35)
    /\ p_result = ResNone
    /\ p_attempted = <<>>

\* C8: for a guard-accepted text the outcome is that of the first grammar, in
\* the order week, month-day range, ISO pair, cross-month, between,
\* year-at-end, that reports a match; the grammars attempted are exactly those
\* up to it; "no match" is returned only after all six failed; and a text that
\* is an ISO pair is decided by the third grammar with its two dates verbatim.
C8_FirstGrammarWins ==
    (ParseEnded /\ ~GuardRejects(p_input)) =>
        /\ p_attempted = SubSeq(GrammarOrder, 1, Min(FirstReporting, 6))
        /\ FirstReporting <= 6 => p_result = GrammarOutcome(FirstReporting)
        /\ FirstReporting = 7 => p_result = ResNone
        /\ p_result = ResNone => Len(p_attempted) = 6
        /\ IsIsoPairText =>
               /\ p_attempted = <<"week", "month_range", "iso">>
               /\ p_result = ResRange(SubSeq(Normalize(p_input.chars), 1, 10),
                                      SubSeq(Normalize(p_input.chars), 15, 24))

\* C8 witness: an ISO pair followed by a cross-month phrase; grammars 3 and 4
\* both match, on different dates, and grammar 3 decided
C8_Witness ==
    /\ p_pc = "done"
    /\ p_input = Text(T_iso \o <<" ">> \o T_cross)
    /\ GrammarOutcome(4).kind = "range"
    /\ GrammarOutcome(4) # GrammarOutcome(3)
    /\ p_result = GrammarOutcome(3)

\* C9: parse_date_range never raises: every input gives a DateRange or
\* "no match".
C9_NeverRaises ==
    ParseEnded => (p_pc = "done" /\ p_result.kind \in {"range", "none"})

\* C10: a text `week N [of] YYYY` yields the 7-day range [S, S+6] where S is a
\* Monday and S = (Monday of the week containing January 4 of YYYY) + 7*(N-1).
C10_WeekIsIsoWeek ==
    (ParseEnded /\ IsWeekText) =>
        /\ p_pc = "done"
        /\ WeekTextYear >= 1
        /\ LET jan_4 == Ordinal(WeekTextYear, 1, 4)
               S == (jan_4 - Weekday(jan_4)) + 7 * (WeekTextNumber - 1)
           IN  /\ S >= 1
               /\ S + 6 <= MaxOrdinal
               /\ Weekday(S) = 0
               /\ p_result = ResRange(Strftime(S, strftime_pads),
                                      Strftime(S + 6, strftime_pads))


(***************************************************************************)
(* The facade operations.  One operation is called per behaviour; the      *)
(* collaborators (keyword extraction, the transport) answer anything.      *)
(***************************************************************************)
\* constants.py, lines 65-81: ESSENTIAL_FIELDS and DETAIL_FIELDS have the
\* same keys
FieldCatalogTables ==
    {"incident", "change_request", "universal_request", "kb_knowledge",
     "vtb_task", "task_sla"}

\* constants.py, TABLE_CONFIGS: the tables whose priority_field is set
PriorityTables ==
    {"incident", "change_request", "sc_req_item", "universal_request", "vtb_task"}

\* line 156
TextSearchMax == 50

\* line 625
DefaultMaxResults == 100

\* line 626
DefaultPageSize == 250

\* line 972
PriorityMax == 100

\* line 1015
GenericMax == 75

S_short_description == <<"s","h","o","r","t","_","d","e","s","c","r","i","p","t","i","o","n">>

S_short_descriptionCONTAINS == S_short_description \o S_CONTAINS

S_number_eq == <<"n","u","m","b","e","r","=">>

S_eq == <<"=">>

\* f"Found {n} records ..." + (" (limited to N)" if n == N else "")
FoundMessage(n, cap) == IF n = cap THEN "FOUND_LIMITED" ELSE "FOUND"

(***************************************************************************)
(* Inputs                                                                  *)
(***************************************************************************)
Tables ==
    {"incident", "change_request", "kb_knowledge", "sc_task", "sc_req_item",
     "cmdb_ci"}

K_vpn == <<"v","p","n">>

K_bypass == <<"x","^","O","R","c","a","t","e","g","o","r","y","=","P","a","y","r","o","l","l">>

KeywordLists == {<<>>, <<K_vpn>>, <<K_bypass>>, <<K_vpn, K_bypass>>}

N_inc == <<"I","N","C","0","0","1","0","0","0","1">>

N_bypass == <<"I","N","C","0","0","1","0","0","0","1","^","O","R","c","a","t","e","g","o","r","y","=","P","a","y","r","o","l","l">>

RecordNumbers == {N_inc, N_bypass}

V_or_bypass == <<"c","a","t","e","g","o","r","y","=","P","a","y","r","o","l","l","^","O","R","c","a","t","e","g","o","r","y","=","W","o","r","k","p","l","a","c","e">>

V_or_spaced == <<"c","a","t","e","g","o","r","y","=","P","a","y","r","o","l","l","^","O","R","c","a","t","e","g","o","r","y","=","P","e","o","p","l","e"," ","S","u","p","p","o","r","t">>

S_category == <<"c","a","t","e","g","o","r","y">>

S_state == <<"s","t","a","t","e">>

S_state_gte == <<"s","t","a","t","e","_","g","t","e">>

FilterMappings ==
    { <<>>,
      << <<S_complete_query, V_or_bypass>> >>,
      << <<S_category, V_or_spaced>> >>,
      << <<S_category, <<"P","a","y","r","o","l","l">>>> >>,
      << <<S_priority, <<"P","1",",","P","2">>>> >>,
      << <<S_sys_created_on, T_week35>> >>,
      << <<S_sys_created_on, T_week_year0>> >>,
      << <<S_state_gte, <<"2">> >> >>,
      << <<S_short_description, <<"v","p","n"," ","d","o","w","n">>>>, <<S_state, <<"1">> >> >>,
      << <<S_exclude_caller, <<"l","o","g","i","c","m","o","n","i","t","o","r">>>> >> }

PriorityLists == {<<>>, << <<"1">> >>, << <<"1">>, <<"2">> >>, << <<"1","^","N","Q","c","a","t","e","g","o","r","y","=","P","a","y","r","o","l","l">> >>}

\* additional_filters of the priority query: absent (the empty mapping
\* behaves the same, line 956) or a mapping
AdditionalFilters ==
    { <<>>,
      << <<S_state, <<"1">> >> >>,
      << <<S_category, V_or_bypass>> >> }

ExecStates == {"text_exec", "filters_exec", "priority_exec", "generic_exec"}

(***************************************************************************)
(* query_table_by_text, lines 143-165                                      *)
(***************************************************************************)
\* lines 149-154
TextSearchUrl(table, keyword) ==
    LET query == ApplySecurityFilters(table, S_short_descriptionCONTAINS \o keyword)
    IN  Url(table, query, TRUE, query, FALSE)

\* a mutant of the step below: the keywords are taken from the last to the
\* first
TextSearchTryBackwards(table, keywords, i) ==
    IF i <= Len(keywords)
    THEN /\ ExecCall(TextSearchUrl(table, keywords[Len(keywords) + 1 - i]),
                     TextSearchMax, DefaultPageSize)
         /\ f_kw' = i
         /\ f_pc' = "text_exec"
         /\ f_return' = f_return
    ELSE /\ f_kw' = i
         /\ f_pc' = "done"
         /\ f_return' = Return("result_message", <<>>, "NO_RECORDS_FOUND", <<>>)
         /\ UNCHANGED exec_vars

\* the `for` of line 148 reaching keyword i: its request is issued (line
\* 156), or the keywords are used up and line 165 returns
TextSearchTry(table, keywords, i) ==
    IF i <= Len(keywords)
    THEN /\ ExecCall(TextSearchUrl(table, keywords[i]), TextSearchMax, DefaultPageSize)
         /\ f_kw' = i
         /\ f_pc' = "text_exec"
         /\ f_return' = f_return
    ELSE /\ f_kw' = i
         /\ f_pc' = "done"
         /\ f_return' = Return("result_message", <<>>, "NO_RECORDS_FOUND", <<>>)
         /\ UNCHANGED exec_vars

\* lines 145-156: ESSENTIAL_FIELDS[table_name] raises KeyError for a table
\* without a field catalog
TextSearchCall ==
    /\ f_pc = "idle"
    /\ \E table \in Tables, keywords \in KeywordLists :
          /\ f_op' = "query_table_by_text"
          /\ f_in' = [keywords |-> keywords]
          /\ f_table' = table
          /\ f_keywords' = keywords
          /\ IF table \notin FieldCatalogTables
             THEN /\ f_pc' = "raised"
                  /\ UNCHANGED <<f_kw, f_return, exec_vars>>
             ELSE TextSearchTry(table, keywords, 1)
    /\ UNCHANGED <<parse_vars, call_vars, strftime_pads, tasks>>

\* lines 156-165: the executor returned or raised
TextSearchResume ==
    /\ f_pc = "text_exec"
    /\ pc \in {"done", "raised"}
    /\ UNCHANGED <<f_op, f_in, f_table, f_keywords, parse_vars, call_vars, strftime_pads, tasks>>
    /\ IF pc = "raised"
       THEN /\ f_pc' = "raised"
            /\ UNCHANGED <<f_kw, f_return, exec_vars>>
       ELSE IF batch # <<>>
       THEN /\ f_pc' = "done"
            /\ f_return' = Return("result_message", batch,
                                  FoundMessage(Len(batch), TextSearchMax),
                                  f_keywords[f_kw])
            /\ UNCHANGED <<f_kw, exec_vars>>
       ELSE TextSearchTry(f_table, f_keywords, f_kw + 1)

(***************************************************************************)
(* get_record_description, lines 167-176, and get_record_details, lines    *)
(* 178-188                                                                 *)
(***************************************************************************)
\* lines 169-174 and 181-186
LookupUrl(table, record_number) ==
    LET query == ApplySecurityFilters(table, S_number_eq \o record_number)
    IN  Url(table, query, TRUE, query, FALSE)

\* lines 169-175 and 180-187: one request that is not paginated
LookupCall ==
    /\ f_pc = "idle"
    /\ \E table \in Tables, record_number \in RecordNumbers,
          op \in {"get_record_description", "get_record_details"} :
          /\ f_op' = op
          /\ f_in' = [record_number |-> record_number]
          /\ f_table' = table
          /\ sent' = Append(sent, Request(LookupUrl(table, record_number), -1, -1))
    /\ f_pc' = "lookup"
    /\ UNCHANGED <<f_keywords, f_kw, f_return, parse_vars, call_vars, strftime_pads, tasks>>
    /\ UNCHANGED <<pc, url, max_results, page_size, all_results, offset,
                   requests, responses, batch, next_id>>

\* lines 176 and 188: data if data else the not-found mapping
LookupResult(resp) ==
    IF resp.kind \in {"none", "emptymap"}
    THEN Return("result_message", <<>>, "RECORD_NOT_FOUND", <<>>)
    ELSE Return("raw", resp.recs, resp.kind, <<>>)

LookupReply ==
    /\ f_pc = "lookup"
    /\ \E resp \in {RespNone, RespEmptyMap, RespNoResult}
                   \cup {RespPage(n, next_id) : n \in 0..2} :
          /\ f_return' = LookupResult(resp)
          /\ next_id' = next_id + Len(resp.recs)
    /\ f_pc' = "done"
    /\ UNCHANGED <<f_op, f_in, f_table, f_keywords, f_kw, parse_vars, call_vars, strftime_pads, tasks>>
    /\ UNCHANGED <<pc, url, max_results, page_size, all_results, offset,
                   requests, responses, batch, sent>>

\* lines 175 and 187: make_nws_request raises; nothing catches it
LookupFault ==
    /\ f_pc = "lookup"
    /\ f_pc' = "raised"
    /\ UNCHANGED <<f_op, f_in, f_table, f_keywords, f_kw, f_return, exec_vars,
                   parse_vars, call_vars, strftime_pads, tasks>>

(***************************************************************************)
(* query_table_with_filters, lines 654-700                                 *)
(***************************************************************************)
\* a mutant of the function below: the query parameter is always there
FiltersUrlAlwaysQuery(table, query_string) ==
    LET filtered == ApplySecurityFilters(table, query_string)
        encoded_query == EncodeQueryString(filtered)
    IN  Url(table, encoded_query, TRUE, filtered, TRUE)

\* lines 675-685
FiltersUrl(table, query_string) ==
    LET filtered == ApplySecurityFilters(table, query_string)
        encoded_query == EncodeQueryString(filtered)
    IN  Url(table, encoded_query, encoded_query # <<>>, filtered, TRUE)

\* lines 676-688: the query string is built; the request goes out
FiltersStart(table, built) ==
    IF built.raised
    THEN /\ f_pc' = "raised"
         /\ UNCHANGED exec_vars
    ELSE /\ ExecCall(FiltersUrl(table, built.query),
                     DefaultMaxResults, DefaultPageSize)
         /\ f_pc' = "filters_exec"

\* lines 666-688; a fault of the date parser is not caught
FiltersCall ==
    /\ f_pc = "idle"
    /\ \E table \in Tables, filters \in FilterMappings :
          /\ f_op' = "query_table_with_filters"
          /\ f_in' = [filters |-> filters]
          /\ f_table' = table
          /\ FiltersStart(table, BuildQueryString(filters, strftime_pads))
    /\ UNCHANGED <<f_keywords, f_kw, f_return, parse_vars, call_vars, strftime_pads, tasks>>

\* lines 688-700
FiltersResume ==
    /\ f_pc = "filters_exec"
    /\ pc \in {"done", "raised"}
    /\ IF pc = "raised"
       THEN /\ f_pc' = "raised"
            /\ f_return' = f_return
       ELSE /\ f_pc' = "done"
            /\ f_return' = IF batch # <<>>
                           THEN Return("result_only", batch, "-", <<>>)
                           ELSE Return("result_message", <<>>, "NO_RECORDS_FOUND", <<>>)
    /\ UNCHANGED <<f_op, f_in, f_table, f_keywords, f_kw, exec_vars, parse_vars, call_vars,
                   strftime_pads, tasks>>

(***************************************************************************)
(* get_records_by_priority, lines 931-983                                  *)
(***************************************************************************)
\* _build_priority_filter, lines 910-921
BuildPriorityFilter(priorities) ==
    Join([i \in 1..Len(priorities) |-> S_priority_eq \o priorities[i]], S_or)

\* lines 955-960: the priority filter and one field=value per additional filter
PriorityQuery(priorities, additional_filters) ==
    Join(<<BuildPriorityFilter(priorities)>>
         \o [i \in 1..Len(additional_filters) |->
                additional_filters[i][1] \o S_eq \o additional_filters[i][2]],
         S_and)

\* lines 960-968
PlainUrl(table, query) ==
    LET final_query == ApplySecurityFilters(table, query)
    IN  Url(table, final_query, final_query # <<>>, final_query, FALSE)

\* lines 941-972
PriorityCall ==
    /\ f_pc = "idle"
    /\ \E table \in Tables, priorities \in PriorityLists,
          additional_filters \in AdditionalFilters :
          /\ f_op' = "get_records_by_priority"
          /\ f_in' = [priorities |-> priorities, additional_filters |-> additional_filters]
          /\ f_table' = table
          /\ IF table \notin PriorityTables
             THEN /\ f_pc' = "done"
                  /\ f_return' = Return("error", <<>>, "TABLE_NO_PRIORITY_SUPPORT_ERROR", <<>>)
                  /\ UNCHANGED exec_vars
             ELSE IF table \notin FieldCatalogTables
             THEN /\ f_pc' = "done"
                  /\ f_return' = Return("error", <<>>, "NO_FIELD_CONFIG_ERROR", <<>>)
                  /\ UNCHANGED exec_vars
             ELSE IF BuildPriorityFilter(priorities) = <<>>
             THEN /\ f_pc' = "done"
                  /\ f_return' = Return("error", <<>>, "NO_VALID_PRIORITIES_ERROR", <<>>)
                  /\ UNCHANGED exec_vars
             ELSE /\ ExecCall(PlainUrl(table, PriorityQuery(priorities, additional_filters)),
                              PriorityMax, DefaultPageSize)
                  /\ f_pc' = "priority_exec"
                  /\ f_return' = f_return
    /\ UNCHANGED <<f_keywords, f_kw, parse_vars, call_vars, strftime_pads, tasks>>

\* lines 970-983 and 1013-1026: a fault becomes an `error` mapping
CappedResume(state, cap) ==
    /\ f_pc = state
    /\ pc \in {"done", "raised"}
    /\ f_pc' = "done"
    /\ f_return' = IF pc = "raised"
                   THEN Return("error", <<>>, "REQUEST_FAILED_ERROR", <<>>)
                   ELSE IF batch # <<>>
                   THEN Return("result_message", batch, FoundMessage(Len(batch), cap), <<>>)
                   ELSE Return("result_message", <<>>, "NO_RECORDS_FOUND", <<>>)
    /\ UNCHANGED <<f_op, f_in, f_table, f_keywords, f_kw, exec_vars, parse_vars, call_vars,
                   strftime_pads, tasks>>

PriorityResume == CappedResume("priority_exec", PriorityMax)

(***************************************************************************)
(* query_table_with_generic_filters, lines 985-1026                        *)
(***************************************************************************)
\* lines 996-1003
GenericQuery(filters) ==
    Join([i \in 1..Len(filters) |->
             IF IsCompleteServicenowFilter(filters[i][2])
             THEN filters[i][2]
             ELSE filters[i][1] \o S_eq \o filters[i][2]], S_and)

\* lines 991-1015
GenericCall ==
    /\ f_pc = "idle"
    /\ \E table \in Tables, filters \in FilterMappings :
          /\ f_op' = "query_table_with_generic_filters"
          /\ f_in' = [filters |-> filters]
          /\ f_table' = table
          /\ IF table \notin FieldCatalogTables
             THEN /\ f_pc' = "done"
                  /\ f_return' = Return("error", <<>>, "NO_FIELD_CONFIG_ERROR", <<>>)
                  /\ UNCHANGED exec_vars
             ELSE /\ ExecCall(PlainUrl(table, GenericQuery(filters)),
                              GenericMax, DefaultPageSize)
                  /\ f_pc' = "generic_exec"
                  /\ f_return' = f_return
    /\ UNCHANGED <<f_keywords, f_kw, parse_vars, call_vars, strftime_pads, tasks>>

GenericResume == CappedResume("generic_exec", GenericMax)

(***************************************************************************)
(* find_similar_records, lines 190-221                                     *)
(***************************************************************************)
\* the `number` of a record that is not the requested one, and of a record
\* that has no `number` (record.get('number') is None)
N_other == <<"I","N","C","0","0","1","0","0","0","2">>

NoNumber == <<"None">>

\* store contents: which records of a page carry the requested number
SimilarPatterns == {"others", "original", "mixed", "unnumbered"}

SimilarNumber(pattern, i, record_number) ==
    CASE pattern = "others" -> N_other
      [] pattern = "original" -> record_number
      [] pattern = "mixed" -> IF i % 2 = 1 THEN record_number ELSE N_other
      [] pattern = "unnumbered" -> IF i = 1 THEN NoNumber ELSE record_number

\* a page of n records, each with its identity and its `number`
RespRecords(n, first, pattern, record_number) ==
    [kind |-> "page",
     recs |-> [i \in 1..n |-> [id |-> first + i - 1,
                               number |-> SimilarNumber(pattern, i, record_number)]]]

\* what get_record_description hands back (lines 175-176) as lines 196-198
\* read it: nothing usable, or a first record whose short_description is
\* absent, empty, blank or a text
Descriptions == {"none", "emptymap", "noresult", "empty_result",
                 "absent", "empty", "blank", "text"}

\* a mutant of the function below: nothing is filtered out
FilterOriginalKeepsAll(results, record_number) ==
    results

\* lines 203-206: the records whose number is not the requested one
FilterOriginal(results, record_number) ==
    SelectSeq(results, LAMBDA record : record.number # record_number)

\* the `for` of line 148 inside the call of line 200; with the keywords
\* used up, line 165 returns an empty result that line 219 hands on
SimilarTry(table, keywords, i) ==
    IF i <= Len(keywords)
    THEN /\ ExecCall(TextSearchUrl(table, keywords[i]), TextSearchMax, DefaultPageSize)
         /\ f_kw' = i
         /\ f_pc' = "similar_exec"
         /\ f_return' = f_return
    ELSE /\ f_kw' = i
         /\ f_pc' = "done"
         /\ f_return' = Return("result_message", <<>>, "NO_RECORDS_FOUND", <<>>)
         /\ UNCHANGED exec_vars

\* lines 192-193 with 169-175: the description request is sent
SimilarCall ==
    /\ f_pc = "idle"
    /\ \E table \in Tables, record_number \in RecordNumbers :
          /\ f_op' = "find_similar_records"
          /\ f_in' = [record_number |-> record_number]
          /\ f_table' = table
          /\ sent' = Append(sent, Request(LookupUrl(table, record_number), -1, -1))
    /\ f_pc' = "similar_lookup"
    /\ UNCHANGED <<f_keywords, f_kw, f_return, parse_vars, call_vars, strftime_pads, tasks>>
    /\ UNCHANGED <<pc, url, max_results, page_size, all_results, offset,
                   requests, responses, batch, next_id>>

\* lines 196-200, 220 and 145-148: no description ends the operation; a
\* description is handed to the text search, whose field lookup raises
\* KeyError for a table without a field catalog (caught at line 221) and
\* whose keywords are the collaborator's
SimilarDescribed ==
    /\ f_pc = "similar_lookup"
    /\ UNCHANGED <<f_op, f_in, f_table, parse_vars, call_vars, strftime_pads, tasks>>
    /\ \E description \in Descriptions, keywords \in KeywordLists :
          IF description # "text"
          THEN /\ f_pc' = "done"
               /\ f_return' = Return("result_message", <<>>, "NO_DESCRIPTION_FOUND", <<>>)
               /\ UNCHANGED <<f_keywords, f_kw, exec_vars>>
          ELSE IF f_table \notin FieldCatalogTables
          THEN /\ f_pc' = "done"
               /\ f_return' = Return("result_message", <<>>, "CONNECTION_ERROR", <<>>)
               /\ UNCHANGED <<f_keywords, f_kw, exec_vars>>
          ELSE /\ f_keywords' = keywords
               /\ SimilarTry(f_table, keywords, 1)

\* lines 175 and 221: the description request raises and is caught
SimilarLookupFault ==
    /\ f_pc = "similar_lookup"
    /\ f_pc' = "done"
    /\ f_return' = Return("result_message", <<>>, "CONNECTION_ERROR", <<>>)
    /\ UNCHANGED <<f_op, f_in, f_table, f_keywords, f_kw, exec_vars,
                   parse_vars, call_vars, strftime_pads, tasks>>

\* lines 202-217 on the records the text search returned
SimilarOutcome(filtered, keyword) ==
    IF filtered # <<>>
    THEN Return("result_message", filtered, "FOUND_SIMILAR", keyword)
    ELSE Return("result_message", <<>>, "NO_SIMILAR_RECORDS_FOUND", <<>>)

\* lines 156-165 and 202-221: the executor returned or raised
SimilarResume ==
    /\ f_pc = "similar_exec"
    /\ pc \in {"done", "raised"}
    /\ UNCHANGED <<f_op, f_in, f_table, f_keywords, parse_vars, call_vars, strftime_pads, tasks>>
    /\ IF pc = "raised"
       THEN /\ f_pc' = "done"
            /\ f_return' = Return("result_message", <<>>, "CONNECTION_ERROR", <<>>)
            /\ UNCHANGED <<f_kw, exec_vars>>
       ELSE IF batch # <<>>
       THEN /\ f_pc' = "done"
            /\ f_return' = SimilarOutcome(FilterOriginal(batch, f_in.record_number),
                                          f_keywords[f_kw])
            /\ UNCHANGED <<f_kw, exec_vars>>
       ELSE SimilarTry(f_table, f_keywords, f_kw + 1)

\* the transport answering a page request of the text search
SimilarPageReply ==
    /\ f_pc = "similar_exec"
    /\ \E resp \in {RespNone, RespEmptyMap, RespNoResult}
                   \cup {RespRecords(n, next_id, pattern, f_in.record_number) :
                            n \in PageLengths(page_size, max_results),
                            pattern \in SimilarPatterns} :
          ExecReply(resp)
    /\ UNCHANGED <<facade_vars, parse_vars, call_vars, strftime_pads, tasks>>

SimilarPageFault ==
    /\ f_pc = "similar_exec"
    /\ ExecFault
    /\ UNCHANGED <<facade_vars, parse_vars, call_vars, strftime_pads, tasks>>

(***************************************************************************)
(* The transport answering a page request of the executor an operation     *)
(* is suspended in                                                         *)
(***************************************************************************)
FacadePageReply ==
    /\ f_pc \in ExecStates
    /\ \E resp \in {RespNone, RespEmptyMap, RespNoResult}
                   \cup {RespPage(n, next_id) : n \in PageLengths(page_size, max_results)} :
          ExecReply(resp)
    /\ UNCHANGED <<facade_vars, parse_vars, call_vars, strftime_pads, tasks>>

FacadePageFault ==
    /\ f_pc \in ExecStates
    /\ ExecFault
    /\ UNCHANGED <<facade_vars, parse_vars, call_vars, strftime_pads, tasks>>

NextFacade ==
    \/ TextSearchCall \/ TextSearchResume
    \/ LookupCall \/ LookupReply \/ LookupFault
    \/ FiltersCall \/ FiltersResume
    \/ PriorityCall \/ PriorityResume
    \/ GenericCall \/ GenericResume
    \/ SimilarCall \/ SimilarDescribed \/ SimilarLookupFault \/ SimilarResume
    \/ SimilarPageReply \/ SimilarPageFault
    \/ FacadePageReply \/ FacadePageFault

InitFacade ==
    IdleExec /\ IdleParse /\ IdleFacade /\ IdleCall /\ IdleTasks /\ strftime_pads \in BOOLEAN

SpecFacade == InitFacade /\ [][NextFacade]_vars

(***************************************************************************)
(* Observations on the requests of one facade operation                    *)
(***************************************************************************)
\* the fragment category!=<name> of excluded category i, as assembled
CategoryFragment(i) == S_category_ne \o EXCLUDED_INCIDENT_CATEGORIES[i]

\* the same fragment as it stands in the URL of request r
CategoryFragmentSent(r, i) ==
    IF r.url.encoded THEN EncodeQueryString(CategoryFragment(i))
    ELSE CategoryFragment(i)

CarriesCategoryExclusions(r) ==
    /\ r.url.has_query
    /\ \A i \in 1..Len(EXCLUDED_INCIDENT_CATEGORIES) :
          /\ Contains(r.url.assembled, CategoryFragment(i))
          /\ Contains(r.url.query, CategoryFragmentSent(r, i))

\* C1: with category filtering enabled, every request any facade operation
\* hands to the transport for the incident table has a query, and the query
\* as assembled and as it stands in the URL contains category!=<name> for
\* every configured excluded category, whatever the caller passed.
C1_IncidentRequestsCarryExclusions ==
    ENABLE_INCIDENT_CATEGORY_FILTERING =>
        \A k \in 1..Len(sent) :
            sent[k].url.table = "incident" => CarriesCategoryExclusions(sent[k])

\* a filtered query on incident whose mapping held a pre-built ^OR filter
\* naming an excluded category has been sent
C1_Witness ==
    \E k \in 1..Len(sent) :
        /\ sent[k].url.table = "incident"
        /\ f_op = "query_table_with_filters"
        /\ StartsWith(sent[k].url.assembled, V_or_bypass)
        /\ CarriesCategoryExclusions(sent[k])


(***************************************************************************)
(* _build_query_condition called on one (field, value) pair                *)
(***************************************************************************)
DispatchFields ==
    { <<"p","r","i","o","r","i","t","y">>,
      <<"s","y","s","_","c","r","e","a","t","e","d","_","o","n">>,
      <<"e","x","c","l","u","d","e","_","c","a","l","l","e","r">>,
      <<"c","a","l","l","e","r","_","e","x","c","l","u","s","i","o","n">>,
      <<"_","c","o","m","p","l","e","t","e","_","q","u","e","r","y">>,
      <<"_","c","o","m","p","l","e","t","e","_","c","a","l","l","e","r","_","e","x","c","l","u","s","i","o","n">>,
      <<"s","t","a","t","e">>,
      <<"s","t","a","t","e","_","g","t","e">>,
      <<"o","p","e","n","e","d","_","a","t","_","l","t","e">>,
      <<"x","_","g","t">>,
      <<"x","_","l","t">>,
      <<"d","e","s","c","r","i","p","t","i","o","n","C","O","N","T","A","I","N","S">>,
      <<"x">>,
      <<"O","N">> }

DispatchValues ==
    { <<"P","1",",","P","2">>,
      <<"3">>,
      <<"P","1">>,
      <<"p","2">>,
      <<"[","P","1","]">>,
      <<"a","=","b">>,
      <<">","=","5">>,
      <<"<","=","2","0","2","5","-","0","1","-","0","1">>,
      <<"w","e","e","k"," ","3","5"," ","o","f"," ","2","0","2","5">>,
      <<"w","e","e","k"," ","1"," ","o","f"," ","0","0","0","0">>,
      <<"2","0","2","5","-","0","1","-","0","1"," ","t","o"," ","2","0","2","5","-","0","1","-","3","1">>,
      <<"h","e","l","l","o">>,
      <<>>,
      <<"a","^","O","R","b">>,
      <<"x","B","E","T","W","E","E","N","y">>,
      <<"l","o","g","i","c","m","o","n","i","t","o","r">>,
      <<"a",",","b">>,
      <<"O","N","L","I","N","E">>,
      <<"x",">","1">>,
      <<"!","=","3">>,
      <<" ">> }

\* priorities as a caller writes them: n, Pn, pn
PriorityItems == {<<"1">>, <<"P","2">>, <<"p","3">>, <<"1","0">>}

PriorityItemLists ==
    {<<a, b>> : a \in PriorityItems, b \in PriorityItems}
        \cup {<<<<"P","1">>, <<"P","2">>, <<"3">>>>, <<<<"2">>, <<"p","3">>, <<"P","2">>>>}

QuoteMarks == {<<>>, <<"\"">>, <<"'">>}

Separators == {<<",">>, <<",", " ">>}

\* a list of priorities written as one string: the items, each between the
\* quote marks, joined by the separator, the whole in brackets or not
RenderList(items, quote, bracketed, sep) ==
    LET inner == Join([i \in 1..Len(items) |-> quote \o items[i] \o quote], sep)
    IN  IF bracketed THEN <<"[">> \o inner \o <<"]">> ELSE inner

\* the argument pairs; items: the list a priority value was written from
\* (<<>> for any other pair)
DispatchInput(field, value, items) == [field |-> field, value |-> value, items |-> items]

DispatchInputs ==
    {DispatchInput(f, v, <<>>) : f \in DispatchFields, v \in DispatchValues}
        \cup {DispatchInput(S_priority, RenderList(items, q, b, sep), items) :
                 items \in PriorityItemLists, q \in QuoteMarks, b \in BOOLEAN,
                 sep \in Separators}
        \cup {DispatchInput(S_priority, item, <<item>>) : item \in PriorityItems}

InitDispatch ==
    /\ c_fn = "_build_query_condition"
    /\ c_in \in DispatchInputs
    /\ c_pc = "ready"
    /\ c_out = <<>>
    /\ strftime_pads \in BOOLEAN
    /\ IdleExec
    /\ IdleParse
    /\ IdleFacade
    /\ IdleTasks

\* the call: it returns a fragment, or the date parser's fault passes through
DispatchCall ==
    /\ c_fn = "_build_query_condition"
    /\ c_pc = "ready"
    /\ LET out == BuildQueryCondition(c_in.field, c_in.value, strftime_pads)
       IN  /\ c_out' = out.frag
           /\ c_pc' = IF out.raised THEN "raised" ELSE "done"
    /\ UNCHANGED <<c_fn, c_in, strftime_pads, tasks, exec_vars, parse_vars, facade_vars>>

NextDispatch == DispatchCall

SpecDispatch == InitDispatch /\ [][NextDispatch]_vars

(***************************************************************************)
(* Observations on one call of the dispatcher                              *)
(***************************************************************************)
DispatchEnded == c_fn = "_build_query_condition" /\ c_pc # "ready"

\* the number of a priority as written: the P or p in front dropped
PriorityNumber(item) ==
    IF item[1] \in {"P", "p"} THEN Tail(item) ELSE item

\* priority=n1^ORpriority=n2..., one equality per item in order
PriorityEqualities(items) ==
    Join([i \in 1..Len(items) |-> S_priority_eq \o PriorityNumber(items[i])], S_or)

\* C11: the priority field with a value written from a list of priorities
\* (items n, Pn or pn; two or more joined by commas, in quotes and brackets
\* or not; or one item alone) dispatches to priority=n1^ORpriority=n2...,
\* one equality per item in input order with P/p dropped; one item gives
\* the single equality priority=n.
C11_PriorityListNormalized ==
    (DispatchEnded /\ c_in.items # <<>>) =>
        /\ c_pc = "done"
        /\ c_out = PriorityEqualities(c_in.items)

\* a bracketed, quoted list of three priorities has been dispatched
C11_Witness ==
    /\ DispatchEnded
    /\ Len(c_in.items) = 3
    /\ c_in.value[1] = "["
    /\ c_in.value[2] = "\""
    /\ c_out = PriorityEqualities(c_in.items)


(***************************************************************************)
(* _parse_caller_exclusions called on a value, and again on what it        *)
(* returned                                                                *)
(***************************************************************************)
CallerItems == {<<"a">>, <<"b","2">>, S_caller_ne \o <<"c">>}

CallerValues ==
    { <<"a","b","c","1","2","3">>,
      <<"l","o","g","i","c","m","o","n","i","t","o","r">>,
      <<"L","o","g","i","c","M","o","n","i","t","o","r">>,
      <<"c","a","l","l","e","r","_","i","d","!","=","a","b","c","1","2","3">>,
      <<"c","a","l","l","e","r","_","i","d","!","=","a","^","c","a","l","l","e","r","_","i","d","!","=","b">>,
      <<>>,
      <<" ">>,
      <<" ","a","b","c"," ">>,
      <<"C","a","l","l","e","r","_","I","D","!","=","x">>,
      <<"a",",","b"," ","\""," ","]">>,
      <<"a",",","b"," ","'"," ","\"">>,
      <<",">>,
      <<"a",",",",","b">>,
      <<"[","a",","," ","b"," ","]">>,
      <<"l","o","g","i","c","m","o","n","i","t","o","r",",","a","b","c">> }
        \cup {RenderList(<<a, b>>, q, br, sep) :
                 a \in CallerItems, b \in CallerItems, q \in QuoteMarks,
                 br \in BOOLEAN, sep \in Separators}

\* how many times the rewriter is applied in a row
MaxRewrites == 2

InitCaller ==
    /\ c_fn = "_parse_caller_exclusions"
    /\ c_in \in CallerValues
    /\ c_pc = "ready"
    /\ c_out = <<>>
    /\ strftime_pads = FALSE
    /\ IdleExec
    /\ IdleParse
    /\ IdleFacade
    /\ IdleTasks

\* the rewriter applied to the value; c_out keeps what each call returned
CallerRewriteCall ==
    /\ c_fn = "_parse_caller_exclusions"
    /\ c_pc = "ready"
    /\ c_out' = <<ParseCallerExclusions(c_in)>>
    /\ c_pc' = "done"
    /\ UNCHANGED <<c_fn, c_in, strftime_pads, tasks, exec_vars, parse_vars, facade_vars>>

\* the rewriter applied to what its last call returned
CallerRewriteAgain ==
    /\ c_fn = "_parse_caller_exclusions"
    /\ c_pc = "done"
    /\ Len(c_out) < MaxRewrites
    /\ c_out' = Append(c_out, ParseCallerExclusions(c_out[Len(c_out)]))
    /\ UNCHANGED <<c_fn, c_in, c_pc, strftime_pads, tasks, exec_vars, parse_vars, facade_vars>>

NextCaller == CallerRewriteCall \/ CallerRewriteAgain

SpecCaller == InitCaller /\ [][NextCaller]_vars

\* C12: the caller-exclusion rewriter is idempotent: applied to what it
\* returned, it returns the same again, for every input value.
C12_CallerRewriteIdempotent ==
    (c_fn = "_parse_caller_exclusions" /\ Len(c_out) >= 2) =>
        \A k \in 2..Len(c_out) : c_out[k] = c_out[1]

\* the part of C12 about values already in caller_id!= form: such a value,
\* single or ^-joined, comes back unchanged
C12_RewrittenFormUnchanged ==
    (c_fn = "_parse_caller_exclusions" /\ c_pc = "done"
        /\ StartsWith(c_in, S_caller_ne) /\ ~Contains(c_in, <<",">>)) =>
        c_out[1] = c_in


(***************************************************************************)
(* The Query Assembler as query_table_with_filters runs it, lines 675-680: *)
(* dispatch and join, the security filters, the encoding                   *)
(***************************************************************************)
AssembleTables == {"incident", "kb_knowledge", "sc_task", "cmdb_ci"}

AssembleFields == {<<"x">>, S_short_description, S_complete_query}

AssembleValues ==
    { <<"v","p","n"," ","d","o","w","n">>,
      <<"1","0","0","%">>,
      <<"a","%","2","0","b">>,
      <<"%","3","D">>,
      <<"a","#","b">>,
      <<"i","t","'","s">>,
      <<"s","a","y"," ","\"","h","i","\"">>,
      <<"1","+","1">>,
      <<"a","/","b","?","c">>,
      <<"[","x","]">>,
      <<"a",",","b">>,
      <<"=","<",">","&","^","(",")",":","@","!">>,
      <<"j","a","v","a","s","c","r","i","p","t",":","g","s",".","d","a","y","s","A","g","o","S","t","a","r","t","(","1","4",")">>,
      <<">","=","2","0","2","5","-","0","1","-","0","1"," ","0","0",":","0","0",":","0","0">>,
      <<"a","^","O","R","b">>,
      <<"~","_",".","-">>,
      <<"{","x","}","|","y","*",";","$">>,
      <<"\\">> }

AssembleMappings ==
    FilterMappings
        \cup {<< <<f, v>> >> : f \in AssembleFields, v \in AssembleValues}

AssembleInput(table, filters) == [table |-> table, filters |-> filters]

InitAssemble ==
    /\ c_fn = "assemble"
    /\ c_in \in {AssembleInput(t, m) : t \in AssembleTables, m \in AssembleMappings}
    /\ c_pc = "ready"
    /\ c_out = <<>>
    /\ strftime_pads \in BOOLEAN
    /\ IdleExec
    /\ IdleParse
    /\ IdleFacade
    /\ IdleTasks

\* lines 675-680, given what _build_query_string returned
Assembled(table, built) ==
    IF built.raised THEN [raised |-> TRUE, query_string |-> <<>>, encoded_query |-> <<>>]
    ELSE [raised |-> FALSE,
          query_string |-> ApplySecurityFilters(table, built.query),
          encoded_query |-> EncodeQueryString(ApplySecurityFilters(table, built.query))]

AssembleCall ==
    /\ c_fn = "assemble"
    /\ c_pc = "ready"
    /\ c_out' = Assembled(c_in.table, BuildQueryString(c_in.filters, strftime_pads))
    /\ c_pc' = IF c_out'.raised THEN "raised" ELSE "done"
    /\ UNCHANGED <<c_fn, c_in, strftime_pads, tasks, exec_vars, parse_vars, facade_vars>>

NextAssemble == AssembleCall

SpecAssemble == InitAssemble /\ [][NextAssemble]_vars

(***************************************************************************)
(* Observations on one assembled query                                     *)
(***************************************************************************)
IsHexDigit(c) == c \in Range(HexDigits) \cup {"a", "b", "c", "d", "e", "f"}

HexValue(c) == IndexOf(HexDigits, UpperChar(c)) - 1

\* the character of a byte; a byte outside the printable ASCII stands as itself
ByteChar(b) == IF b >= 32 /\ b <= 126 THEN AsciiPrintable[b - 31] ELSE "<byte>"

\* the positions of s where an escape %XX starts: a percent sign and two hex
\* digits after it (the two digits are never the start of another escape)
EscapeStarts(s) ==
    {p \in 1..Len(s) : /\ s[p] = "%"
                       /\ p + 2 <= Len(s)
                       /\ IsHexDigit(s[p + 1])
                       /\ IsHexDigit(s[p + 2])}

\* urllib.parse.unquote, given the escape starts: %XX is the character of
\* that byte, anything else stands as it is
UnquoteAt(s, starts) ==
    LET kept == SelectSeq([p \in 1..Len(s) |-> p],
                          LAMBDA p : (p - 1) \notin starts /\ (p - 2) \notin starts)
    IN  [k \in 1..Len(kept) |->
            IF kept[k] \in starts
            THEN ByteChar(16 * HexValue(s[kept[k] + 1]) + HexValue(s[kept[k] + 2]))
            ELSE s[kept[k]]]

Unquote(s) == UnquoteAt(s, EscapeStarts(s))

GrammarCharacters == {"=", "<", ">", "&", "^", "(", ")", ":", "@", "!"}

AssembleEnded == c_fn = "assemble" /\ c_pc = "done"

\* C13: percent-decoding the encoded query gives back the query as it was
\* before the encoding, and each of the characters =<>&^():@! stands in the
\* encoded query as itself, as often as in the query, never as %XX.
C13_EncodingRoundTrip ==
    AssembleEnded =>
        /\ Unquote(c_out.encoded_query) = c_out.query_string
        /\ \A c \in GrammarCharacters :
              /\ Count(c_out.encoded_query, c) = Count(c_out.query_string, c)
              /\ ~Contains(c_out.encoded_query, PercentCode(c))

\* a query holding a percent sign followed by two hex digits, and grammar
\* characters, has been encoded
C13_Witness ==
    /\ AssembleEnded
    /\ Contains(c_out.query_string, <<"%", "2", "0">>)
    /\ Contains(c_out.query_string, <<"=">>)
    /\ c_out.encoded_query # c_out.query_string
    /\ Unquote(c_out.encoded_query) = c_out.query_string


(***************************************************************************)
(* The dispatcher's result against its handlers taken one by one           *)
(***************************************************************************)
IsPseudoField(field) == field \in {S_complete_query, S_complete_caller_exclusion}

\* the suffix-operator rule alone: _gte, _lte, _gt, _lt stripped from the
\* field and the comparison written against the base field
SuffixComparison(field, value) ==
    IF EndsWith(field, <<"_","g","t","e">>) THEN Some(DropLast(field, 4) \o S_ge \o value)
    ELSE IF EndsWith(field, <<"_","l","t","e">>) THEN Some(DropLast(field, 4) \o S_le \o value)
    ELSE IF EndsWith(field, <<"_","g","t">>) THEN Some(DropLast(field, 3) \o <<">">> \o value)
    ELSE IF EndsWith(field, <<"_","l","t">>) THEN Some(DropLast(field, 3) \o <<"<">> \o value)
    ELSE Nothing

\* the fragment of the first result of the sequence that is one, else the default
FirstOf(results, default) ==
    IF \E i \in 1..Len(results) : results[i].some
    THEN results[SetMin({i \in 1..Len(results) : results[i].some})].frag
    ELSE default

\* the handlers in the fixed order, each asked on its own
HandlerResults(field, value, pads) ==
    << HandleDateRangeCondition(field, value, pads).res,
       HandlePriorityCondition(field, value),
       HandleCallerExclusionCondition(field, value),
       HandleServicenowFilterCondition(field, value),
       HandleOperatorCondition(field, value),
       SuffixComparison(field, value) >>

FirstApplicable(field, value, pads) ==
    IF IsPseudoField(field) THEN value
    ELSE FirstOf(HandlerResults(field, value, pads), field \o <<"=">> \o value)

\* C14: the dispatcher is total and first-match-wins: for every pair of
\* strings the call returns (it never fails), and what it returns is the
\* output of the first applicable handler in the order pseudo-field
\* verbatim, date-range, priority, caller-exclusion, complete filter,
\* explicit operator, suffix operator (_gte, _lte, _gt, _lt), and otherwise
\* field=value.
C14_TotalFirstMatch ==
    DispatchEnded =>
        /\ c_pc = "done"
        /\ c_out = FirstApplicable(c_in.field, c_in.value, strftime_pads)

\* what remains of C14 where the call returned and the field name does not
\* hold CONTAINS: the result is that of the first applicable handler
C14_FirstMatchWhereReturned ==
    (DispatchEnded /\ c_pc = "done" /\ ~Contains(Upper(c_in.field), S_CONTAINS)) =>
        c_out = FirstApplicable(c_in.field, c_in.value, strftime_pads)


\* the operators of the store's condition grammar
GrammarOperators ==
    {<<"=">>, <<"!","=">>, S_ge, S_le, <<">">>, <<"<">>, S_CONTAINS, S_BETWEEN}

IsFieldChar(c) == IsWord(c) \/ c = "."

\* frag reads field<op>value: a field name, not empty, and an operator
\* right after it
ObeysGrammar(frag) ==
    \E p \in 2..Len(frag) :
        /\ \A k \in 1..(p - 1) : IsFieldChar(frag[k])
        /\ \E op \in GrammarOperators : HasAt(frag, p, op)

\* C15: for every field other than the two pseudo-fields and every value the
\* dispatcher produces one fragment of the form field<op>value with op among
\* =, !=, >=, <=, >, <, CONTAINS, BETWEEN: never the empty string, never a
\* bare value without field and operator.
C15_FragmentObeysGrammar ==
    (DispatchEnded /\ ~IsPseudoField(c_in.field)) =>
        /\ c_pc = "done"
        /\ c_out # <<>>
        /\ ObeysGrammar(c_out)


(***************************************************************************)
(* Observations on the filtered query called with an empty FilterMapping   *)
(***************************************************************************)
\* request k was sent by a filtered query whose mapping is empty
EmptyMappingRequest(k) ==
    /\ f_op = "query_table_with_filters"
    /\ f_in.filters = <<>>
    /\ k \in 1..Len(sent)

\* C16 as stated: for an empty FilterMapping, on every table, the assembled
\* query is the empty string and the request has no query parameter.
C16_EmptyMappingNoQuery ==
    \A k \in 1..Len(sent) :
        EmptyMappingRequest(k) =>
            /\ sent[k].url.assembled = <<>>
            /\ sent[k].url.query = <<>>
            /\ ~sent[k].url.has_query

\* C16 as the code has it: for an empty FilterMapping the assembled query is
\* the security exclusions of the table and nothing else: empty, and no
\* query parameter, on a table that has none; the category exclusions on
\* incident and the catalog and assignment-group exclusions on the catalog
\* tables, sent percent-encoded as the query parameter.
C16_EmptyMappingOnlyExclusions ==
    \A k \in 1..Len(sent) :
        EmptyMappingRequest(k) =>
            /\ sent[k].url.assembled =
                  (IF sent[k].url.table = "incident" THEN CategoryQuery
                   ELSE IF sent[k].url.table \in SC_CATALOG_TABLES THEN ExclusionQuery
                   ELSE <<>>)
            /\ sent[k].url.query = EncodeQueryString(sent[k].url.assembled)
            /\ sent[k].url.has_query = (sent[k].url.assembled # <<>>)

\* an empty mapping has been sent on a table without exclusions, with no
\* query parameter
C16_Witness ==
    \E k \in 1..Len(sent) :
        /\ EmptyMappingRequest(k)
        /\ sent[k].url.table = "kb_knowledge"
        /\ ~sent[k].url.has_query


(***************************************************************************)
(* The two security filters called on a table and a query, under each      *)
(* setting of their toggles                                                *)
(***************************************************************************)
FilterTables ==
    {"incident", "sc_request", "sc_req_item", "sc_task", "kb_knowledge",
     "change_request", "cmdb_ci", "Incident"}

FilterQueries ==
    { <<>>,
      <<"a","c","t","i","v","e","=","t","r","u","e">>,
      <<"c","a","t","e","g","o","r","y","=","P","a","y","r","o","l","l">>,
      V_or_bypass }

FilterInput(table, query, category_on, catalog_on) ==
    [table |-> table, query |-> query, category_on |-> category_on,
     catalog_on |-> catalog_on]

InitFilters ==
    /\ c_fn = "security_filters"
    /\ c_in \in {FilterInput(t, q, a, b) : t \in FilterTables, q \in FilterQueries,
                                            a \in BOOLEAN, b \in BOOLEAN}
    /\ c_pc = "ready"
    /\ c_out = <<>>
    /\ strftime_pads = FALSE
    /\ IdleExec
    /\ IdleParse
    /\ IdleFacade
    /\ IdleTasks

\* each filter on the query, and the two in a row as the operations call them
FiltersApplied(category_on, catalog_on, table, query) ==
    [category |-> CategoryFilterUnder(category_on, table, query),
     catalog |-> CatalogFilterUnder(catalog_on, table, query),
     both |-> CatalogFilterUnder(catalog_on, table,
                                 CategoryFilterUnder(category_on, table, query))]

FiltersApplyCall ==
    /\ c_fn = "security_filters"
    /\ c_pc = "ready"
    /\ c_out' = FiltersApplied(c_in.category_on, c_in.catalog_on, c_in.table, c_in.query)
    /\ c_pc' = "done"
    /\ UNCHANGED <<c_fn, c_in, strftime_pads, tasks, exec_vars, parse_vars, facade_vars>>

NextFilters == FiltersApplyCall

SpecFilters == InitFilters /\ [][NextFilters]_vars

FiltersEnded == c_fn = "security_filters" /\ c_pc = "done"

\* C17: the category filter returns the query unchanged for every table
\* other than incident and whenever its toggle is off; the catalog filter
\* returns it unchanged for every table outside sc_request, sc_req_item,
\* sc_task and whenever its toggle is off; for a table in neither set the
\* query after both filters is the query before them; at most one of the
\* two filters modifies a given query.
C17_FiltersScopedAndGated ==
    FiltersEnded =>
        /\ (c_in.table # "incident" \/ ~c_in.category_on) => c_out.category = c_in.query
        /\ (c_in.table \notin {"sc_request", "sc_req_item", "sc_task"} \/ ~c_in.catalog_on)
              => c_out.catalog = c_in.query
        /\ (c_in.table \notin {"incident", "sc_request", "sc_req_item", "sc_task"})
              => c_out.both = c_in.query
        /\ ~(c_out.category # c_in.query /\ c_out.catalog # c_in.query)
        /\ c_out.both \in {c_out.category, c_out.catalog}

\* incident with the category toggle off and a query of the caller's: the
\* filter was applied and gave the query back
C17_Witness ==
    /\ FiltersEnded
    /\ c_in.table = "incident"
    /\ ~c_in.category_on
    /\ c_in.catalog_on
    /\ c_in.query # <<>>
    /\ c_out.both = c_in.query


(***************************************************************************)
(* What the operations hand to their caller                                *)
(***************************************************************************)
FacadeEnded == f_pc \in {"done", "raised"}

\* C18: no operation lets a fault reach its caller: whatever the table and
\* whatever the transport does, the operation ends by returning a mapping
\* with a `result` or an `error`.
C18_NoFaultPropagates ==
    /\ f_pc # "raised"
    /\ f_pc = "done" => f_return.shape \in {"result_message", "result_only", "error", "raw"}

\* C20: the similarity search returns no record whose number is the
\* requested one, and when the text search found records that are all the
\* requested one it returns an empty result with the no-similar-records
\* message.
C20_OriginalNeverReturned ==
    (f_op = "find_similar_records" /\ f_pc = "done") =>
        /\ \A i \in 1..Len(f_return.result) :
              f_return.result[i].number # f_in.record_number
        /\ (batch # <<>> /\ \A i \in 1..Len(batch) : batch[i].number = f_in.record_number)
              => f_return = Return("result_message", <<>>, "NO_SIMILAR_RECORDS_FOUND", <<>>)

\* the text search found the requested record among others, and the others
\* were returned
C20_Witness ==
    /\ f_op = "find_similar_records"
    /\ f_pc = "done"
    /\ \E i \in 1..Len(batch) : batch[i].number = f_in.record_number
    /\ f_return.result # <<>>
    /\ Len(f_return.result) < Len(batch)


(***************************************************************************)
(* The requests of one text search                                         *)
(***************************************************************************)
TextSearching == f_op = "query_table_by_text"

\* request j of the search is the one for keyword j
RequestsFollowKeywords ==
    /\ Len(sent) <= Len(f_keywords)
    /\ \A j \in 1..Len(sent) :
          /\ sent[j].url = TextSearchUrl(f_table, f_keywords[j])
          /\ sent[j].offset = 0

\* the search returned the records of the keyword it stopped at
ReturnedFirstYield ==
    /\ Len(sent) = f_kw
    /\ f_return = Return("result_message", batch,
                         FoundMessage(Len(batch), TextSearchMax), f_keywords[f_kw])
    /\ Len(f_return.result) <= TextSearchMax

\* the search used up the keywords
ReturnedNothing ==
    /\ Len(sent) = Len(f_keywords)
    /\ f_return = Return("result_message", <<>>, "NO_RECORDS_FOUND", <<>>)

\* C19: the text search asks for the keywords in the collaborator's order,
\* for keyword k+1 only after keyword k returned zero records; it returns
\* the records of the first keyword that yields any, at most 50, with no
\* request for a later keyword; if no keyword yields anything it returns an
\* empty result with the no-records-found message.
C19_KeywordsTriedInOrder ==
    /\ [](TextSearching =>
            /\ RequestsFollowKeywords
            /\ (f_pc = "done" /\ f_return.result # <<>>) => ReturnedFirstYield
            /\ (f_pc = "done" /\ f_return.result = <<>>) => ReturnedNothing)
    /\ [][(TextSearching /\ Len(sent) > 0 /\ Len(sent') > Len(sent))
             => (pc = "done" /\ batch = <<>>)]_vars

\* the first keyword returned nothing and the second one's records, with
\* the cap reached, were returned
C19_Witness ==
    /\ TextSearching
    /\ f_pc = "done"
    /\ f_kw = 2
    /\ Len(sent) = 2
    /\ sent[1].url # sent[2].url
    /\ Len(f_return.result) = TextSearchMax
    /\ Len(all_results) > TextSearchMax


(***************************************************************************)
(* query_table_intelligently, lines 783-831, with _build_intelligence_     *)
(* response, lines 736-754, and _build_fallback_response, lines 756-781    *)
(***************************************************************************)
\* confidences in tenths: what build_smart_filter may report, and the 0.3
\* of line 767
Confidences == {3, 9}

FallbackConfidence == 3

\* intelligence_result["filters"] as build_smart_filter may hand it over
IntelligentMappings ==
    { <<>>,
      << <<S_category, <<"P","a","y","r","o","l","l">>>> >>,
      << <<S_priority, <<"P","1",",","P","2">>>> >>,
      << <<S_sys_created_on, T_week_year0>> >> }

\* the response mapping: `result`, and the confidence inside `intelligence`;
\* message names the builder ("filters": lines 743-754, "fallback": 763-781)
IntelligenceReturn(result, confidence, builder) ==
    [shape |-> "intelligence", result |-> result, message |-> builder,
     count |-> Len(result), keyword |-> <<>>, confidence |-> confidence]

\* lines 743-754
IntelligenceResponse(query_result, confidence) ==
    IntelligenceReturn(query_result, confidence, "filters")

\* a mutant of the function below: the confidence is not lowered
FallbackResponseFullConfidence(fallback_result) ==
    IntelligenceReturn(fallback_result, FallbackConfidence + 7, "fallback")

\* lines 763-781
FallbackResponse(fallback_result) ==
    IntelligenceReturn(fallback_result, FallbackConfidence, "fallback")

\* lines 828-829 with 145-165: the text search on the phrase.  The field
\* lookup of line 145 raises KeyError for a table without a field catalog;
\* the `for` of line 148 reaching keyword i sends its request or, with the
\* keywords used up, hands the empty result to the fallback builder.
FallbackTry(table, keywords, i) ==
    IF table \notin FieldCatalogTables
    THEN /\ f_pc' = "raised"
         /\ UNCHANGED <<f_kw, f_return, exec_vars>>
    ELSE IF i <= Len(keywords)
    THEN /\ ExecCall(TextSearchUrl(table, keywords[i]), TextSearchMax, DefaultPageSize)
         /\ f_kw' = i
         /\ f_pc' = "fallback_exec"
         /\ f_return' = f_return
    ELSE /\ f_kw' = i
         /\ f_pc' = "done"
         /\ f_return' = FallbackResponse(<<>>)
         /\ UNCHANGED exec_vars

\* lines 812-815: the query string is built (a fault of the date parser is
\* not caught) and the filtered query sends its request
IntelligentStart(table, built) ==
    IF built.raised
    THEN /\ f_pc' = "raised"
         /\ UNCHANGED <<f_kw, f_return, exec_vars>>
    ELSE /\ ExecCall(FiltersUrl(table, built.query),
                     DefaultMaxResults, DefaultPageSize)
         /\ f_pc' = "intelligent_exec"
         /\ UNCHANGED <<f_kw, f_return>>

\* lines 799-815 and 828: with filters the filtered query is run, without
\* any the text search
IntelligentCall ==
    /\ f_pc = "idle"
    /\ \E table \in Tables, filters \in IntelligentMappings,
          confidence \in Confidences, keywords \in KeywordLists :
          /\ f_op' = "query_table_intelligently"
          /\ f_in' = [filters |-> filters, confidence |-> confidence]
          /\ f_table' = table
          /\ f_keywords' = keywords
          /\ IF filters # <<>>
             THEN IntelligentStart(table, BuildQueryString(filters, strftime_pads))
             ELSE FallbackTry(table, keywords, 1)
    /\ UNCHANGED <<parse_vars, call_vars, strftime_pads, tasks>>

\* line 825: the filtered query handed back a non-empty `result`
FilteredFound(results) == results # <<>>

\* lines 815-829: the filtered query returned or raised
IntelligentResume ==
    /\ f_pc = "intelligent_exec"
    /\ pc \in {"done", "raised"}
    /\ UNCHANGED <<f_op, f_in, f_table, f_keywords, parse_vars, call_vars, strftime_pads, tasks>>
    /\ IF pc = "raised"
       THEN /\ f_pc' = "raised"
            /\ UNCHANGED <<f_kw, f_return, exec_vars>>
       ELSE IF FilteredFound(batch)
       THEN /\ f_pc' = "done"
            /\ f_return' = IntelligenceResponse(batch, f_in.confidence)
            /\ UNCHANGED <<f_kw, exec_vars>>
       ELSE FallbackTry(f_table, f_keywords, 1)

\* lines 156-165 and 829: the executor of the text search returned or raised
FallbackResume ==
    /\ f_pc = "fallback_exec"
    /\ pc \in {"done", "raised"}
    /\ UNCHANGED <<f_op, f_in, f_table, f_keywords, parse_vars, call_vars, strftime_pads, tasks>>
    /\ IF pc = "raised"
       THEN /\ f_pc' = "raised"
            /\ UNCHANGED <<f_kw, f_return, exec_vars>>
       ELSE IF batch # <<>>
       THEN /\ f_pc' = "done"
            /\ f_return' = FallbackResponse(batch)
            /\ UNCHANGED <<f_kw, exec_vars>>
       ELSE FallbackTry(f_table, f_keywords, f_kw + 1)

\* the transport answering a page request of either query
IntelligentPageReply ==
    /\ f_pc \in {"intelligent_exec", "fallback_exec"}
    /\ \E resp \in {RespNone, RespEmptyMap, RespNoResult}
                   \cup {RespPage(n, next_id) : n \in PageLengths(page_size, max_results)} :
          ExecReply(resp)
    /\ UNCHANGED <<facade_vars, parse_vars, call_vars, strftime_pads, tasks>>

IntelligentPageFault ==
    /\ f_pc \in {"intelligent_exec", "fallback_exec"}
    /\ ExecFault
    /\ UNCHANGED <<facade_vars, parse_vars, call_vars, strftime_pads, tasks>>

NextIntelligent ==
    \/ IntelligentCall \/ IntelligentResume \/ FallbackResume
    \/ IntelligentPageReply \/ IntelligentPageFault

SpecIntelligent == InitFacade /\ [][NextIntelligent]_vars


(***************************************************************************)
(* The two paths of one intelligent query                                  *)
(***************************************************************************)
Intelligent == f_op = "query_table_intelligently"

\* a request of the text search: its query is sent as assembled, while the
\* filtered query percent-encodes its own
IsTextSearchRequest(r) == ~r.url.encoded

\* a step that sends a request of the text search
SendsTextSearchRequest ==
    /\ Len(sent') > Len(sent)
    /\ IsTextSearchRequest(sent'[Len(sent')])

\* the state the fallback is entered from: no filters were extracted, or the
\* filtered query has returned without a record
FallbackDue ==
    \/ (f_pc = "idle" /\ f_in'.filters = <<>>)
    \/ (f_pc = "intelligent_exec" /\ pc = "done" /\ batch = <<>>)

\* the operation is in the text search or has returned its response
InFallback ==
    \/ f_pc = "fallback_exec"
    \/ (f_pc = "done" /\ f_return.message = "fallback")

\* C21: the intelligent query falls back to the text search exactly when
\* no filters were extracted or the filtered query returned zero records;
\* the fallback response carries the confidence 0.3; when the filtered
\* query returns a record, no text-search request is issued and the
\* response carries the collaborator's confidence and the filtered records.
C21_FallbackExactlyOnNoResult ==
    /\ [](Intelligent /\ f_pc = "done" =>
            /\ f_return.shape = "intelligence"
            /\ f_return.message = "fallback" => f_return.confidence = FallbackConfidence
            /\ f_return.message = "filters" =>
                  /\ f_return.confidence = f_in.confidence
                  /\ f_return.result = batch
                  /\ batch # <<>>
                  /\ \A j \in 1..Len(sent) : ~IsTextSearchRequest(sent[j]))
    /\ [][(Intelligent' /\ ~InFallback /\ (InFallback' \/ SendsTextSearchRequest))
             => FallbackDue]_vars
    /\ [][(Intelligent' /\ FallbackDue /\ f_pc' # f_pc)
             => (InFallback' \/ (f_pc' = "raised" /\ f_table' \notin FieldCatalogTables))]_vars
    /\ [][(Intelligent /\ f_pc = "intelligent_exec" /\ pc = "done" /\ batch # <<>>
              /\ f_pc' # f_pc)
             => (f_pc' = "done" /\ f_return'.message = "filters" /\ sent' = sent)]_vars

\* the collaborator was more confident than 0.3, the filtered query found
\* nothing, and the text search's records were returned
C21_Witness ==
    /\ Intelligent
    /\ f_pc = "done"
    /\ f_in.filters # <<>>
    /\ f_in.confidence # FallbackConfidence
    /\ Len(sent) = 2
    /\ f_return.message = "fallback"
    /\ f_return.result # <<>>


(***************************************************************************)
(* Two executions of _make_paginated_request, lines 623-651, as coroutines *)
(* of one event loop: each runs from one await to the next, and the loop   *)
(* may resume either whenever its request has been answered.  The store    *)
(* holds a fixed number of records for each query and answers a request    *)
(* with the records at its offset, at most `limit` of them.                *)
(***************************************************************************)
TaskIds == {1, 2}

MaxStored == 4

TaskSettings ==
    {[max_results |-> mx, page_size |-> ps, stored |-> n] :
        mx \in {2, MaxResultsBound}, ps \in {1, MaxPageSize}, n \in {0, 2, MaxStored}}

\* the locals of a coroutine that has not been called yet
NewTask(query, setting) ==
    [query |-> query, max_results |-> setting.max_results,
     page_size |-> setting.page_size, stored |-> setting.stored,
     pc |-> "idle", all_results |-> <<>>, offset |-> 0,
     requests |-> <<>>, received |-> 0, batch |-> <<>>]

\* what the store answers to the request a task is waiting on
StoreAnswer(t) ==
    [k \in 1..Min(t.page_size, IF t.stored > t.offset THEN t.stored - t.offset ELSE 0)
        |-> <<t.query, t.offset + k>>]

\* line 632 reached with the locals t: the next request goes out (lines
\* 633-634) or line 651 returns
TaskEnter(t) ==
    IF LoopCondition(t.all_results, t.max_results)
    THEN [t EXCEPT !.pc = "await", !.requests = Append(@, t.offset)]
    ELSE [t EXCEPT !.pc = "done", !.batch = Truncate(t.all_results, t.max_results)]

\* a mutant of the function below: one list serves every execution
AccumulatedShared(c, i) ==
    c[1].all_results

\* line 629: all_results is a local of the execution
Accumulated(c, i) ==
    c[i].all_results

\* lines 634-651: task i of c is resumed with the records of its page
TaskAfterReply(c, i, recs) ==
    LET t == [c[i] EXCEPT !.received = @ + 1]
    IN  IF recs = <<>>
        THEN [t EXCEPT !.pc = "done",
                       !.batch = Truncate(Accumulated(c, i), t.max_results)]
        ELSE IF ShortPage(recs, t.page_size)
        THEN [t EXCEPT !.pc = "done",
                       !.all_results = Extend(Accumulated(c, i), recs),
                       !.batch = Truncate(Extend(Accumulated(c, i), recs), t.max_results)]
        ELSE TaskEnter([t EXCEPT !.all_results = Extend(Accumulated(c, i), recs),
                                 !.offset = NextOffset(t.offset, t.page_size)])

InitTasks ==
    /\ tasks \in {[i \in TaskIds |-> NewTask(i, IF i = 1 THEN a ELSE b)] :
                     a \in TaskSettings, b \in TaskSettings}
    /\ IdleExec
    /\ IdleParse
    /\ IdleFacade
    /\ IdleCall
    /\ strftime_pads = FALSE

\* lines 629-634: a task is started and runs to its first await
TaskCall ==
    /\ \E i \in TaskIds :
          /\ tasks[i].pc = "idle"
          /\ tasks' = [tasks EXCEPT ![i] = TaskEnter(tasks[i])]
    /\ UNCHANGED <<exec_vars, parse_vars, strftime_pads, facade_vars, call_vars>>

\* lines 634-651: the answer to a task's request arrives and the task runs
\* to its next await or to its return
TaskReply ==
    /\ \E i \in TaskIds :
          /\ tasks[i].pc = "await"
          /\ tasks' = [tasks EXCEPT ![i] = TaskAfterReply(tasks, i, StoreAnswer(tasks[i]))]
    /\ UNCHANGED <<exec_vars, parse_vars, strftime_pads, facade_vars, call_vars>>

NextTasks == TaskCall \/ TaskReply

SpecTasks == InitTasks /\ [][NextTasks]_vars

\* the same execution with the event loop to itself
RECURSIVE RunAlone(_)
RunAlone(t) ==
    IF t.pc = "idle" THEN RunAlone(TaskEnter(t))
    ELSE IF t.pc = "await"
    THEN RunAlone(TaskAfterReply([j \in {1} |-> t], 1, StoreAnswer(t)))
    ELSE t.batch

InFlight(t) == Len(t.requests) - t.received

\* C22: an execution has at most one page request in flight: request k+1
\* goes out only after the answer to request k was received and processed,
\* at an offset page_size above that of request k, starting at 0; and
\* executions of different queries running concurrently share no mutable
\* state: each returns, under every interleaving, the batch it returns when
\* run alone.
C22_OneInFlightAndIsolated ==
    /\ [](\A i \in DOMAIN tasks :
            /\ InFlight(tasks[i]) \in {0, 1}
            /\ InFlight(tasks[i]) = 1 <=> tasks[i].pc = "await"
            /\ \A k \in 1..Len(tasks[i].requests) :
                  tasks[i].requests[k] = (k - 1) * tasks[i].page_size
            /\ tasks[i].pc = "done" =>
                  tasks[i].batch = RunAlone(NewTask(tasks[i].query,
                                                    [max_results |-> tasks[i].max_results,
                                                     page_size |-> tasks[i].page_size,
                                                     stored |-> tasks[i].stored])))
    /\ [][\A i \in DOMAIN tasks :
             Len(tasks'[i].requests) > Len(tasks[i].requests)
                => (InFlight(tasks[i]) = 0 \/ tasks'[i].received > tasks[i].received)]_vars

\* both executions were in flight at once, each went through more than one
\* page, and both have returned records
C22_Witness ==
    /\ DOMAIN tasks = TaskIds
    /\ \A i \in TaskIds :
          /\ tasks[i].pc = "done"
          /\ Len(tasks[i].requests) >= 2
          /\ tasks[i].batch # <<>>
    /\ tasks[1].page_size # tasks[2].page_size


(***************************************************************************)
(* The explicit-operator handler inside the dispatcher                     *)
(***************************************************************************)
ComparisonOperators == {S_ge, S_le, <<">">>, <<"<">>, <<"=">>}

BeginsWithOperator(value) == \E op \in ComparisonOperators : StartsWith(value, op)

\* none of the handlers ahead of the explicit-operator one gives a result
NoEarlierHandler(field, value, pads) ==
    /\ ~IsPseudoField(field)
    /\ ~HandleDateRangeCondition(field, value, pads).raised
    /\ ~HandleDateRangeCondition(field, value, pads).res.some
    /\ ~HandlePriorityCondition(field, value).some
    /\ ~HandleCallerExclusionCondition(field, value).some
    /\ ~HandleServicenowFilterCondition(field, value).some

\* what the handlers after the explicit-operator one make of the pair
SuffixOrDefault(field, value) ==
    IF HandleSuffixOperatorCondition(field, value).some
    THEN HandleSuffixOperatorCondition(field, value).frag
    ELSE HandleExactMatchCondition(field, value)

\* C23: the explicit-operator handler applies only when the value begins
\* with >=, <=, >, < or =: a value that holds such a character only after
\* its first position, and matches no earlier handler, is not concatenated
\* onto the field but decided by the suffix-operator or the default
\* equality handler (field x, value a=b gives x=a=b).
C23_OperatorOnlyAtStart ==
    (/\ DispatchEnded
     /\ NoEarlierHandler(c_in.field, c_in.value, strftime_pads)
     /\ HasOperatorInValue(c_in.value)
     /\ ~BeginsWithOperator(c_in.value))
        => /\ c_pc = "done"
           /\ c_out # c_in.field \o c_in.value
           /\ c_out = SuffixOrDefault(c_in.field, c_in.value)


(***************************************************************************)
(* The date-range handler inside the dispatcher                            *)
(***************************************************************************)
\* the pair as the handlers after the date-range one decide it
LaterHandlers(field, value) ==
    FirstOf(<< HandlePriorityCondition(field, value),
               HandleCallerExclusionCondition(field, value),
               HandleServicenowFilterCondition(field, value),
               HandleOperatorCondition(field, value),
               HandleSuffixOperatorCondition(field, value) >>,
            HandleExactMatchCondition(field, value))

\* the value is left to the date parser: no BETWEEN in it, no >= or <= at
\* its start
LeftToParser(value) ==
    /\ ~Contains(value, S_BETWEEN)
    /\ ~StartsWith(value, S_ge)
    /\ ~StartsWith(value, S_le)

\* what the date parser makes of the value of the call
ParsedValue == ParseDateRangeFromText(Text(c_in.value), strftime_pads).result

\* the fragment as the statement spells it
SpelledBetween(s, e) ==
    <<"s","y","s","_","c","r","e","a","t","e","d","_","o","n","B","E","T","W","E","E","N","j","a","v","a","s","c","r","i","p","t",":","g","s",".","d","a","t","e","G","e","n","e","r","a","t","e","(","'">>
        \o s \o <<"'",",","'","0","0",":","0","0",":","0","0","'",")","@","j","a","v","a","s","c","r","i","p","t",":","g","s",".","d","a","t","e","G","e","n","e","r","a","t","e","(","'">>
        \o e \o <<"'",",","'","2","3",":","5","9",":","5","9","'",")">>

\* C24: the date-range handler applies only to the field sys_created_on:
\* for a value without BETWEEN that does not begin with >= or <=, a date
\* range (s, e) gives exactly
\* sys_created_onBETWEENjavascript:gs.dateGenerate('s','00:00:00')@javascript:gs.dateGenerate('e','23:59:59'),
\* and "no match" leaves the pair to the later handlers; for every other
\* field the handler produces no fragment.
C24_DateRangeOnlyForCreatedOn ==
    (DispatchEnded /\ ~IsPseudoField(c_in.field)) =>
        /\ (c_in.field = S_sys_created_on /\ LeftToParser(c_in.value)
               /\ ParsedValue.kind = "range")
              => (c_pc = "done" /\ c_out = SpelledBetween(ParsedValue.start, ParsedValue.end))
        /\ (c_in.field = S_sys_created_on /\ LeftToParser(c_in.value)
               /\ ParsedValue.kind = "none")
              => (c_pc = "done" /\ c_out = LaterHandlers(c_in.field, c_in.value))
        /\ c_in.field # S_sys_created_on
              => (c_pc = "done" /\ c_out = LaterHandlers(c_in.field, c_in.value))

\* sys_created_on with a week phrase: the BETWEEN fragment came back
C24_Witness ==
    /\ DispatchEnded
    /\ c_pc = "done"
    /\ c_in.field = S_sys_created_on
    /\ c_in.value = T_week35
    /\ ParsedValue.kind = "range"
    /\ StartsWith(c_out, S_sys_created_on \o S_BETWEEN)


(***************************************************************************)
(* What a single-record lookup hands back when the store has no match      *)
(***************************************************************************)
LookupEnded ==
    /\ f_op \in {"get_record_description", "get_record_details"}
    /\ f_pc = "done"

\* the transport gave no response, or a response whose `result` is empty
\* (a response handed on as it came carries its kind as message)
NoMatchingRecord ==
    \/ f_return.message = "RECORD_NOT_FOUND"
    \/ (f_return.shape = "raw" /\ f_return.message = "page" /\ f_return.result = <<>>)

\* C25: a lookup returns the not-found message whenever the store yields no
\* matching record: when the transport returns no response and when it
\* returns a response whose `result` is empty, the mapping returned has an
\* empty `result` and the record-not-found message.
C25_NoRecordGivesNotFound ==
    (LookupEnded /\ NoMatchingRecord) =>
        f_return = Return("result_message", <<>>, "RECORD_NOT_FOUND", <<>>)


(***************************************************************************)
(* The form of the dates the parser returns                                *)
(***************************************************************************)
AllDigits(s) == \A k \in 1..Len(s) : IsDigit(s[k])

\* d reads YYYY-MM-DD and names a day of the calendar
IsCalendarDate(d) ==
    /\ Len(d) = 10
    /\ d[5] = "-"
    /\ d[8] = "-"
    /\ AllDigits(SubSeq(d, 1, 4))
    /\ AllDigits(SubSeq(d, 6, 7))
    /\ AllDigits(SubSeq(d, 9, 10))
    /\ ToInt(SubSeq(d, 6, 7)) \in 1..12
    /\ ToInt(SubSeq(d, 9, 10)) >= 1
    /\ ToInt(SubSeq(d, 9, 10))
          <= DaysInMonth(ToInt(SubSeq(d, 1, 4)), ToInt(SubSeq(d, 6, 7)))

\* C26: every date range the parser returns, from any of the six grammars,
\* has both endpoints in the 10-character form YYYY-MM-DD: a 4-digit year
\* (also for years below 1000 written with leading zeros), a 2-digit month
\* in 01..12 and a 2-digit day that exists in that month.
C26_EndpointsAreCalendarDates ==
    (p_pc = "done" /\ p_result.kind = "range") =>
        /\ IsCalendarDate(p_result.start)
        /\ IsCalendarDate(p_result.end)

====
